---------------------------- MODULE Spec2Model ----------------------------
(***************************************************************************)
(* A model of dsp_save_parser: the primitive codecs of common.py, the      *)
(* parse/save/get_size methods that generator.py writes for a record, and  *)
(* the blueprint envelope of blueprint.py with the digest of buggy_md5.py. *)
(*                                                                         *)
(* Bytes are integers 0..255, a stream is a sequence of bytes and a stream *)
(* position is the number of bytes before it (Python's tell()).  Python    *)
(* integers are unbounded; the model keeps every value within 32 bits      *)
(* signed, so the 8-byte types and uint32 are left out.                    *)
(***************************************************************************)
EXTENDS Integers, Sequences, FiniteSets, TLC

VARIABLES
    pc,         \* position of the driver that exercises the codec
    cls,        \* name of the class whose parse / save is exercised
    stream,     \* contents of the BytesIO that parse reads
    pos,        \* stream.tell() of that BytesIO
    value,      \* the Python value at hand (see the value constructors)
    out,        \* contents of the BytesIO that save writes
    result,     \* what the operation after save, or the load, returned
    err,        \* the exception that ended the run, "none" if none
    file,       \* contents of the blueprint file
    data,       \* load_blueprint_data: the text read, later the parsed data
    data_begin_pos,   \* index of the opening quote
    header_array,     \* the entries of the header
    data_end_pos,     \* index of the closing quote
    data_sign,        \* the digest computed
    expected_sign,    \* the signature recorded in the text
    blobs,      \* the payload on its way through base64 and gzip
    msg,        \* the message of the exception, <<>> if none
    def_file,   \* generator: the schema file
    f_def,      \* generator: what is left to read of the schema
    out_py_file,      \* generator: the lines of the output file
    def_file_sha256,  \* generator: the digest of the schema file
    class_attrs,      \* generator: the entries of the class body, in order
    var_meta,         \* generator: the entry of the declaration at hand
    global_class_defs,            \* generator: _global_class_defs
    generated_template_classes,   \* generator: _generated_template_classes
    template_class_gen_list,      \* generator: the instantiations asked for
    files,      \* _bootstrap: the schema files it has still to go through
    md5_obj,    \* MD5: hash_pieces of the object, <<>> before construction
    md5_args    \* MD5: the arguments of the update calls so far

codec_vars == <<cls, stream, pos, value, out>>

load_vars ==
    <<file, data, data_begin_pos, header_array, data_end_pos, data_sign,
      expected_sign, blobs, msg>>

gen_vars ==
    <<def_file, f_def, out_py_file, def_file_sha256, class_attrs, var_meta,
      global_class_defs, generated_template_classes,
      template_class_gen_list, files>>

md5_vars == <<md5_obj, md5_args>>

vars == <<pc, cls, stream, pos, value, out, result, err, file, data,
          data_begin_pos, header_array, data_end_pos, data_sign,
          expected_sign, blobs, msg, def_file, f_def, out_py_file,
          def_file_sha256, class_attrs, var_meta, global_class_defs,
          generated_template_classes, template_class_gen_list, files,
          md5_obj, md5_args>>

----------------------------------------------------------------------------
(* Bounds of the model.                                                    *)

\* varint inputs are 0..MaxVarint together with the large values below
MaxVarint == 300
\* FlexibleInt inputs are -MaxFlex..MaxFlex together with the range borders
MaxFlex == 40
\* longest byte stream handed to a primitive's parse
MaxStreamLen == 3
\* longest byte stream handed to a generated record's parse
MaxRecordLen == 4
\* most spaces after the signature of a blueprint file
MaxTrailer == 4

----------------------------------------------------------------------------
(* Python values.                                                          *)

None == [k |-> "none"]
IntV(n) == [k |-> "int", v |-> n]
StrV(cps) == [k |-> "str", s |-> cps]
BytesV(bs) == [k |-> "bytes", b |-> bs]
ListV(xs) == [k |-> "list", l |-> xs]
\* a float that a float32 holds exactly: its sign bit, its 8 exponent bits
\* and its 23 fraction bits
FloatV(sign, exp, man) ==
    [k |-> "float", sign |-> sign, exp |-> exp, man |-> man]

\* the outcome of an operation: a value, the stream position it left, and
\* the exception it raised ("none" when it returned)
Ret(v, p) == [v |-> v, pos |-> p, err |-> "none"]
Raise(e, p) == [v |-> None, pos |-> p, err |-> e]

Min(a, b) == IF a < b THEN a ELSE b
Max(a, b) == IF a > b THEN a ELSE b

----------------------------------------------------------------------------
(* BytesIO and int.from_bytes / int.to_bytes, byteorder 'little'.          *)

\* stream.read(n): at most n bytes, fewer at the end of the stream, and
\* everything that is left when n is negative
Read(s, p, n) ==
    IF n < 0 THEN SubSeq(s, p + 1, Len(s))
    ELSE SubSeq(s, p + 1, Min(p + n, Len(s)))

\* stream.tell() after stream.read(n)
Tell(s, p, n) == IF n < 0 THEN Max(p, Len(s)) ELSE Max(p, Min(p + n, Len(s)))

RECURSIVE Pow256(_)
Pow256(n) == IF n = 0 THEN 1 ELSE 256 * Pow256(n - 1)

RECURSIVE FromBytesU(_)
FromBytesU(bs) ==
    IF bs = <<>> THEN 0 ELSE Head(bs) + 256 * FromBytesU(Tail(bs))

RECURSIVE FromBytesS(_)
FromBytesS(bs) ==
    IF bs = <<>> THEN 0
    ELSE IF Len(bs) = 1 THEN (IF bs[1] >= 128 THEN bs[1] - 256 ELSE bs[1])
    ELSE Head(bs) + 256 * FromBytesS(Tail(bs))

from_bytes(bs, signed) == IF signed THEN FromBytesS(bs) ELSE FromBytesU(bs)

\* whether n.to_bytes(len, signed=signed) returns (it raises OverflowError
\* otherwise); every modelled value fits four signed bytes
Fits(n, len, signed) ==
    IF signed
    THEN len >= 4 \/ (n >= -(Pow256(len) \div 2) /\ n < Pow256(len) \div 2)
    ELSE n >= 0 /\ (len >= 4 \/ n < Pow256(len))

to_bytes(n, len, signed) ==
    [i \in 1..len |-> (n \div Pow256(i - 1)) % 256]


----------------------------------------------------------------------------
(* bytes.decode('utf-8') and str.encode('utf-8').  A string is the         *)
(* sequence of its code points.                                            *)

Cont(b) == b >= 128 /\ b <= 191

\* the number of bytes of the UTF-8 sequence that starts at bs[i], 0 when
\* no valid sequence starts there (strict decoding: no overlong forms, no
\* surrogates, nothing above U+10FFFF, no truncated sequence)
Utf8SeqLen(bs, i) ==
    LET b == bs[i]
        has(n) == i + n - 1 <= Len(bs)
    IN  IF b < 128 THEN 1
        ELSE IF b >= 194 /\ b <= 223
        THEN (IF has(2) /\ Cont(bs[i + 1]) THEN 2 ELSE 0)
        ELSE IF b >= 224 /\ b <= 239
        THEN (IF has(3) /\ Cont(bs[i + 1]) /\ Cont(bs[i + 2])
                 /\ (b = 224 => bs[i + 1] >= 160)
                 /\ (b = 237 => bs[i + 1] <= 159)
              THEN 3 ELSE 0)
        ELSE IF b >= 240 /\ b <= 244
        THEN (IF has(4) /\ Cont(bs[i + 1]) /\ Cont(bs[i + 2]) /\ Cont(bs[i + 3])
                 /\ (b = 240 => bs[i + 1] >= 144)
                 /\ (b = 244 => bs[i + 1] <= 143)
              THEN 4 ELSE 0)
        ELSE 0

Utf8CodePoint(bs, i, n) ==
    IF n = 1 THEN bs[i]
    ELSE IF n = 2 THEN (bs[i] - 192) * 64 + (bs[i + 1] - 128)
    ELSE IF n = 3
    THEN (bs[i] - 224) * 4096 + (bs[i + 1] - 128) * 64 + (bs[i + 2] - 128)
    ELSE (bs[i] - 240) * 262144 + (bs[i + 1] - 128) * 4096
         + (bs[i + 2] - 128) * 64 + (bs[i + 3] - 128)

\* [ok |-> whether the bytes from bs[i] on are valid UTF-8, s |-> the text]
RECURSIVE Utf8DecodeFrom(_, _)
Utf8DecodeFrom(bs, i) ==
    IF i > Len(bs) THEN [ok |-> TRUE, s |-> <<>>]
    ELSE LET n == Utf8SeqLen(bs, i)
         IN  IF n = 0 THEN [ok |-> FALSE, s |-> <<>>]
             ELSE LET rest == Utf8DecodeFrom(bs, i + n)
                  IN  [ok |-> rest.ok,
                       s |-> <<Utf8CodePoint(bs, i, n)>> \o rest.s]

utf8_decode(bs) == Utf8DecodeFrom(bs, 1)

Utf8EncodeChar(c) ==
    IF c < 128 THEN <<c>>
    ELSE IF c < 2048 THEN <<192 + (c \div 64), 128 + (c % 64)>>
    ELSE IF c < 65536
    THEN <<224 + (c \div 4096), 128 + ((c \div 64) % 64), 128 + (c % 64)>>
    ELSE <<240 + (c \div 262144), 128 + ((c \div 4096) % 64),
           128 + ((c \div 64) % 64), 128 + (c % 64)>>

RECURSIVE utf8_encode(_)
utf8_encode(cps) ==
    IF cps = <<>> THEN <<>>
    ELSE Utf8EncodeChar(Head(cps)) \o utf8_encode(Tail(cps))

----------------------------------------------------------------------------
(* The primitive codecs of common.py.  X_parse(s, p) is X.parse on the     *)
(* stream s at position p; X_save(n) is X(n).save: the bytes it writes and *)
(* the exception it raises.                                                *)

Wrote(bs) == [b |-> bs, err |-> "none"]
WriteFailed(bs, e) == [b |-> bs, err |-> e]

\* the fixed-width integers: int8, uint8, int16, uint16, int24, int32
IntWidth(t) ==
    CASE t = "int8" -> 1 [] t = "uint8" -> 1 [] t = "int16" -> 2
      [] t = "uint16" -> 2 [] t = "int24" -> 3 [] t = "int32" -> 4

IntSigned(t) == t \in {"int8", "int16", "int24", "int32"}

FixedTypes == {"int8", "uint8", "int16", "uint16", "int24", "int32"}

int_parse(t, s, p) ==
    Ret(IntV(from_bytes(Read(s, p, IntWidth(t)), IntSigned(t))),
        Tell(s, p, IntWidth(t)))

int_save(t, n) ==
    IF Fits(n, IntWidth(t), IntSigned(t))
    THEN Wrote(to_bytes(n, IntWidth(t), IntSigned(t)))
    ELSE WriteFailed(<<>>, "OverflowError")

\* float32.parse: unpack('<f', data.read(4)), struct.error on a short read
float32_parse(s, p) ==
    IF Len(Read(s, p, 4)) < 4 THEN Raise("error", Tell(s, p, 4))
    ELSE Ret(FloatV(s[p + 4] \div 128,
                    ((s[p + 4] % 128) * 2) + (s[p + 3] \div 128),
                    ((s[p + 3] % 128) * 65536) + (s[p + 2] * 256) + s[p + 1]),
             p + 4)

\* float32(v).save: pack('<f', v) of a finite value that a float32 holds
float32_save(v) ==
    Wrote(<<v.man % 256, (v.man \div 256) % 256,
            ((v.exp % 2) * 128) + (v.man \div 65536),
            (v.sign * 128) + (v.exp \div 2)>>)

\* boolean.parse: bool() of the byte read, so every non-zero byte is 1
boolean_parse(s, p) ==
    Ret(IntV(IF from_bytes(Read(s, p, 1), FALSE) = 0 THEN 0 ELSE 1),
        Tell(s, p, 1))

boolean_save(n) ==
    IF Fits(n, 1, FALSE) THEN Wrote(to_bytes(n, 1, FALSE))
    ELSE WriteFailed(<<>>, "OverflowError")

\* varint.parse: value = value << 7 | (byte & 0x7F) until a byte < 0x80
RECURSIVE VarintParseLoop(_, _, _)
VarintParseLoop(s, p, v) ==
    IF p >= Len(s) THEN Raise("EOFError", p)
    ELSE LET byte == s[p + 1]
             v2 == (v * 128) + (byte % 128)
         IN  IF byte < 128 THEN Ret(IntV(v2), p + 1)
             ELSE VarintParseLoop(s, p + 1, v2)

varint_parse(s, p) == VarintParseLoop(s, p, 0)

\* varint.save: while value > 0x7F: append(0x80 | value & 0x7F); value >>= 7
RECURSIVE VarintSaveLoop(_)
VarintSaveLoop(v) ==
    IF v > 127 THEN <<128 + (v % 128)>> \o VarintSaveLoop(v \div 128)
    ELSE <<v>>

varint_save(n) ==
    IF n < 0 THEN WriteFailed(<<>>, "ValueError")
    ELSE Wrote(VarintSaveLoop(n))

\* string.parse: a varint length, then that many bytes decoded as UTF-8
string_parse(s, p) ==
    LET length == varint_parse(s, p)
    IN  IF length.err # "none" THEN length
        ELSE LET bs == Read(s, length.pos, length.v.v)
                 d == utf8_decode(bs)
                 p2 == Tell(s, length.pos, length.v.v)
             IN  IF d.ok THEN Ret(StrV(d.s), p2)
                 ELSE Raise("UnicodeDecodeError", p2)

string_save(cps) ==
    LET b_str == utf8_encode(cps)
    IN  Wrote(varint_save(Len(b_str)).b \o b_str)

\* FlexibleInt.parse with every payload read signed (indicators 1..3 too)
FlexibleInt_parse_signed(s, p) ==
    LET indicator == from_bytes(Read(s, p, 1), FALSE)
        p1 == Tell(s, p, 1)
    IN  IF indicator > 4 \/ indicator = 0 THEN Ret(IntV(indicator), p1)
        ELSE Ret(IntV(from_bytes(Read(s, p1, indicator), TRUE)),
                 Tell(s, p1, indicator))

\* FlexibleInt.parse
FlexibleInt_parse(s, p) ==
    LET indicator == from_bytes(Read(s, p, 1), FALSE)
        p1 == Tell(s, p, 1)
    IN  IF indicator > 4 \/ indicator = 0 THEN Ret(IntV(indicator), p1)
        ELSE IF indicator < 4
        THEN Ret(IntV(from_bytes(Read(s, p1, indicator), FALSE)),
                 Tell(s, p1, indicator))
        ELSE Ret(IntV(from_bytes(Read(s, p1, indicator), TRUE)),
                 Tell(s, p1, indicator))

\* FlexibleInt.save without its three-byte branch
FlexibleInt_save_no3(n) ==
    IF n = 0 THEN Wrote(<<0>>)
    ELSE IF n < 0 THEN Wrote(<<4>> \o to_bytes(n, 4, TRUE))
    ELSE IF n <= 255
    THEN Wrote((IF n <= 4 THEN <<1>> ELSE <<>>) \o to_bytes(n, 1, FALSE))
    ELSE IF n <= 65535 THEN Wrote(<<2>> \o to_bytes(n, 2, FALSE))
    ELSE Wrote(<<4>> \o to_bytes(n, 4, TRUE))

\* FlexibleInt.save writing the indicator 0x01 only below 4
FlexibleInt_save_lt4(n) ==
    IF n = 0 THEN Wrote(<<0>>)
    ELSE IF n < 0 THEN Wrote(<<4>> \o to_bytes(n, 4, TRUE))
    ELSE IF n <= 255
    THEN Wrote((IF n < 4 THEN <<1>> ELSE <<>>) \o to_bytes(n, 1, FALSE))
    ELSE IF n <= 65535 THEN Wrote(<<2>> \o to_bytes(n, 2, FALSE))
    ELSE IF n <= 16777215 THEN Wrote(<<3>> \o to_bytes(n, 3, FALSE))
    ELSE Wrote(<<4>> \o to_bytes(n, 4, TRUE))

\* FlexibleInt.save
FlexibleInt_save(n) ==
    IF n = 0 THEN Wrote(<<0>>)
    ELSE IF n < 0 THEN Wrote(<<4>> \o to_bytes(n, 4, TRUE))
    ELSE IF n <= 255
    THEN Wrote((IF n <= 4 THEN <<1>> ELSE <<>>) \o to_bytes(n, 1, FALSE))
    ELSE IF n <= 65535 THEN Wrote(<<2>> \o to_bytes(n, 2, FALSE))
    ELSE IF n <= 16777215 THEN Wrote(<<3>> \o to_bytes(n, 3, FALSE))
    ELSE Wrote(<<4>> \o to_bytes(n, 4, TRUE))


----------------------------------------------------------------------------
(* The schema IR (class_attrs of parse_class_body) and the methods that    *)
(* write_py_class generates from it, as an interpreter over the IR.        *)

PrimTypes ==
    FixedTypes \cup {"boolean", "varint", "string", "FlexibleInt", "float32"}

\* cls.parse(stream) at position p
prim_parse(t, s, p) ==
    CASE t \in FixedTypes -> int_parse(t, s, p)
      [] t = "boolean" -> boolean_parse(s, p)
      [] t = "varint" -> varint_parse(s, p)
      [] t = "string" -> string_parse(s, p)
      [] t = "FlexibleInt" -> FlexibleInt_parse(s, p)
      [] t = "float32" -> float32_parse(s, p)

\* cls(v).save(stream)
prim_save(t, v) ==
    CASE t \in FixedTypes -> int_save(t, v.v)
      [] t = "boolean" -> boolean_save(v.v)
      [] t = "varint" -> varint_save(v.v)
      [] t = "string" -> string_save(v.s)
      [] t = "FlexibleInt" -> FlexibleInt_save(v.v)
      [] t = "float32" -> float32_save(v)

\* the types generator.py treats as built in (and the model covers)
BUILTIN_TYPES ==
    {"int8", "uint8", "int16", "uint16", "int32", "string", "boolean",
     "FlexibleInt", "float32"}

\* Python's None for an absent clause
NoExpr == [e |-> "none"]
Const(n) == [e |-> "const", n |-> n]
Ref(name) == [e |-> "ref", name |-> name]
\* a string literal and a float literal that a float32 holds exactly
Str(s) == [e |-> "str", s |-> s]
Float(sign, exp, man) ==
    [e |-> "float", sign |-> sign, exp |-> exp, man |-> man]
\* `name > n` and `name == n`, the conditions of the model's schema
Gt(name, n) == [e |-> "gt", name |-> name, n |-> n]
EqTo(name, n) == [e |-> "eq", name |-> name, n |-> n]

\* var_meta of parse_variable_def for `type name`
Field(name, type) ==
    [name |-> name, type |-> type, is_array |-> FALSE, array_size |-> NoExpr,
     if_clause |-> NoExpr, default |-> NoExpr, assertion |-> NoExpr,
     props |-> <<>>, injected |-> FALSE]

\* `type name[size]`
ArrayField(name, type, size) ==
    [Field(name, type) EXCEPT !.is_array = TRUE, !.array_size = size]

\* `injected type name = k`
InjectedField(name, type, k) ==
    [Field(name, type) EXCEPT !.injected = TRUE, !.assertion = Const(k)]

\* the schema the model generates parsers for
Schema ==
    [Empty |-> <<>>,
     Flags |-> <<Field("flag", "boolean"), Field("fi", "FlexibleInt")>>,
     Text  |-> <<Field("s", "string")>>,
     Num   |-> <<Field("n", "int32")>>,
     Magic |-> <<[Field("tag", "uint8") EXCEPT !.assertion = Const(1)],
                 Field("body", "uint8")>>,
     Pair  |-> <<Field("a", "uint8"),
                 [Field("b", "uint8") EXCEPT !.assertion = Ref("a")]>>,
     Name  |-> <<[Field("s", "string") EXCEPT !.assertion = Str(<<65>>)]>>,
     Approx |-> <<[Field("f", "float32")
                     EXCEPT !.assertion = Float(0, 127, 0)]>>,
     Chk   |-> <<Field("num", "int8"),
                 [Field("v", "uint8") EXCEPT !.if_clause = Gt("num", 0),
                                             !.default = Const(7),
                                             !.assertion = Const(7)]>>,
     Dflt  |-> <<Field("num", "int8"), Field("alt", "uint8"),
                 [Field("v", "uint8") EXCEPT !.if_clause = Gt("num", 0),
                                             !.default = Ref("alt")]>>,
     Tagged |-> <<InjectedField("k", "int32", 1),
                  ArrayField("raw", "uint8", Const(2)),
                  InjectedField("j", "int32", 0)>>,
     Blob  |-> <<Field("n", "int8"), ArrayField("raw", "uint8", Ref("n"))>>,
     Fixed |-> <<ArrayField("raw", "uint8", Const(2))>>,
     Words |-> <<Field("n", "int8"), ArrayField("w", "int16", Ref("n"))>>,
     Opt   |-> <<Field("num", "int8"),
                 [Field("opt", "int16") EXCEPT !.if_clause = Gt("num", 0),
                                               !.default = Const(7)],
                 [Field("tag", "uint8") EXCEPT !.if_clause = EqTo("num", 0)],
                 Field("tail", "uint8")>>,
     Inner |-> <<InjectedField("k", "int32", 0), Field("a", "uint8")>>,
     Outer |-> <<Field("n", "int8"),
                 [ArrayField("items", "Inner", Ref("n"))
                     EXCEPT !.props = <<Ref("n")>>],
                 [Field("last", "Inner") EXCEPT !.props = <<Ref("n")>>]>>]

RecordClasses == DOMAIN Schema

\* the classes the model parses from a stream of their own
RootClasses == RecordClasses

\* the props handed to cls.parse(stream, props): (5, 6) for a class with
\* injected fields, the default () otherwise
RootProps(c) ==
    IF c \in {"Inner", "Tagged"} THEN <<IntV(5), IntV(6)>> ELSE <<>>

\* generated_type == 'bytes': List[uint8] before the Optional[] wrap
IsBytes(m) == m.type = "uint8" /\ m.is_array /\ m.if_clause = NoExpr

\* Python's == on the model's values
PyEq(a, b) ==
    IF a.k # b.k THEN FALSE
    ELSE IF a.k = "float"
    THEN \/ a.exp = 0 /\ a.man = 0 /\ b.exp = 0 /\ b.man = 0
         \/ a = b /\ ~(a.exp = 255 /\ a.man # 0)
    ELSE a = b

\* an array_size, default or props expression in the scope of the fields
\* bound so far
Eval(e, scope, i) ==
    CASE e.e = "const" -> IntV(e.n)
      [] e.e = "ref" -> scope[e.name]
      [] e.e = "str" -> StrV(e.s)
      [] e.e = "float" -> FloatV(e.sign, e.exp, e.man)
      [] e.e = "i" -> IntV(i)

\* an if_clause
Cond(e, scope) ==
    CASE e.e = "gt" -> scope[e.name].v > e.n
      [] e.e = "eq" -> scope[e.name].v = e.n

EmptyScope == [x \in {} |-> None]

\* a parse that passes the position it started at for both locations
Obj_end_at_start(c, fields, start, end) ==
    [k |-> "obj", cls |-> c, f |-> fields,
     location_start |-> start, location_end |-> start]

Obj(c, fields, start, end) ==
    [k |-> "obj", cls |-> c, f |-> fields,
     location_start |-> start, location_end |-> end]

\* the generated __init__ called with the fields alone: location_start and
\* location_end take their default, -1
New(c, fields) == Obj(c, fields, -1, -1)

\* the value of a function at its only argument: Local([r \in {e} |-> body])
\* is body with r naming the value of e, computed once
Local(f) == f[CHOOSE r \in DOMAIN f : TRUE]

RECURSIVE ParseRecord(_, _, _, _)
RECURSIVE ParseFields(_, _, _, _, _, _)
RECURSIVE ParseArray(_, _, _, _, _, _, _, _)

\* an injected field read from the stream like any other field
ParseElem_from_stream(m, s, p, scope, props, i) ==
    IF m.type \in PrimTypes THEN prim_parse(m.type, s, p)
    ELSE ParseRecord(m.type, s, p,
                     [j \in 1..Len(m.props) |-> Eval(m.props[j], scope, i)])

\* the right-hand side for one element: props[k] or type.parse(stream, props)
ParseElem(m, s, p, scope, props, i) ==
    IF m.injected
    THEN LET k == IF m.assertion.n < 0 THEN m.assertion.n + Len(props)
                  ELSE m.assertion.n
         IN  IF k >= 0 /\ k < Len(props) THEN Ret(props[k + 1], p)
             ELSE Raise("IndexError", p)
    ELSE IF m.type \in PrimTypes THEN prim_parse(m.type, s, p)
    ELSE ParseRecord(m.type, s, p,
                     [j \in 1..Len(m.props) |-> Eval(m.props[j], scope, i)])

\* [elem for i in range(n)]
ParseArray(m, s, p, scope, props, i, n, acc) ==
    IF i >= n THEN Ret(ListV(acc), p)
    ELSE Local([r \in {ParseElem(m, s, p, scope, props, i)} |->
                 IF r.err # "none" THEN r
                 ELSE ParseArray(m, s, r.pos, scope, props, i + 1, n,
                                 Append(acc, r.v))])

\* assign_stmt
ParseAssign(m, s, p, scope, props) ==
    IF m.is_array
    THEN LET n == Eval(m.array_size, scope, 0).v
         IN  IF IsBytes(m) THEN Ret(BytesV(Read(s, p, n)), Tell(s, p, n))
             ELSE ParseArray(m, s, p, scope, props, 0, n, <<>>)
    ELSE ParseElem(m, s, p, scope, props, 0)

\* a field whose condition is false gets its default and the stream is
\* moved past the bytes of the field all the same
ParseField_consuming(m, s, p, scope, props) ==
    IF m.if_clause # NoExpr /\ ~Cond(m.if_clause, scope)
    THEN Ret(IF m.default = NoExpr THEN None
             ELSE Eval(m.default, scope, 0),
             ParseAssign(m, s, p, scope, props).pos)
    ELSE ParseAssign(m, s, p, scope, props)

\* the (conditional) assignment alone, no assert generated
ParseField_unasserted(m, s, p, scope, props) ==
    IF m.if_clause # NoExpr /\ ~Cond(m.if_clause, scope)
    THEN Ret(IF m.default = NoExpr THEN None
             ELSE Eval(m.default, scope, 0), p)
    ELSE ParseAssign(m, s, p, scope, props)

\* the statements generated for one field: the (conditional) assignment and
\* the assert of a non-injected field
ParseField(m, s, p, scope, props) ==
    Local([bound \in
              {IF m.if_clause # NoExpr /\ ~Cond(m.if_clause, scope)
               THEN Ret(IF m.default = NoExpr THEN None
                        ELSE Eval(m.default, scope, 0), p)
               ELSE ParseAssign(m, s, p, scope, props)} |->
            IF bound.err = "none" /\ m.assertion # NoExpr /\ ~m.injected
               /\ ~PyEq(bound.v, Eval(m.assertion, scope, 0))
            THEN Raise("AssertionError", bound.pos)
            ELSE bound])

ParseFields(c, j, s, p, scope, props) ==
    IF j > Len(Schema[c]) THEN [scope |-> scope, pos |-> p, err |-> "none"]
    ELSE Local([r \in {ParseField(Schema[c][j], s, p, scope, props)} |->
                 IF r.err # "none"
                 THEN [scope |-> scope, pos |-> r.pos, err |-> r.err]
                 ELSE ParseFields(c, j + 1, s, r.pos,
                                  scope @@ (Schema[c][j].name :> r.v),
                                  props)])

\* the generated classmethod parse(cls, stream, props)
ParseRecord(c, s, p, props) ==
    Local([r \in {ParseFields(c, 1, s, p, EmptyScope, props)} |->
            IF r.err # "none" THEN Raise(r.err, r.pos)
            ELSE Ret(Obj(c, r.scope, p, r.pos), r.pos)])

RECURSIVE SaveRecord(_)
RECURSIVE SaveFields(_, _, _)
RECURSIVE SaveList(_, _, _, _)

\* type(x).save(stream) for a built-in type, x.save(stream) otherwise
SaveElem(m, v) ==
    IF m.type \in BUILTIN_TYPES
    THEN (IF v.k = (CASE m.type = "string" -> "str"
                      [] m.type = "float32" -> "float"
                      [] OTHER -> "int")
          THEN prim_save(m.type, v)
          ELSE WriteFailed(<<>>, "TypeError"))
    ELSE IF v.k = "obj" THEN SaveRecord(v)
    ELSE IF m.type \in PrimTypes /\ v.k = "int" THEN prim_save(m.type, v)
    ELSE WriteFailed(<<>>, "AttributeError")

\* for t in self.x: ... save(stream)
SaveList(m, xs, i, acc) ==
    IF i > Len(xs) THEN Wrote(acc)
    ELSE Local([w \in {SaveElem(m, xs[i])} |->
                 IF w.err # "none" THEN WriteFailed(acc \o w.b, w.err)
                 ELSE SaveList(m, xs, i + 1, acc \o w.b)])

\* save_stmt of one non-injected field
SaveField(m, o) ==
    IF m.if_clause # NoExpr /\ ~Cond(m.if_clause, o.f) THEN Wrote(<<>>)
    ELSE LET v == o.f[m.name]
         IN  IF m.is_array
             THEN (IF IsBytes(m)
                   THEN (IF v.k = "bytes" THEN Wrote(v.b)
                         ELSE WriteFailed(<<>>, "TypeError"))
                   ELSE IF v.k = "list" THEN SaveList(m, v.l, 1, <<>>)
                   ELSE WriteFailed(<<>>, "TypeError"))
             ELSE SaveElem(m, v)

SaveFields(o, j, acc) ==
    IF j > Len(Schema[o.cls]) THEN Wrote(acc)
    ELSE IF Schema[o.cls][j].injected THEN SaveFields(o, j + 1, acc)
    ELSE Local([w \in {SaveField(Schema[o.cls][j], o)} |->
                 IF w.err # "none" THEN WriteFailed(acc \o w.b, w.err)
                 ELSE SaveFields(o, j + 1, acc \o w.b)])

\* the generated save(self, stream)
SaveRecord(o) == SaveFields(o, 1, <<>>)

Sized(n) == [v |-> n, err |-> "none"]
SizeFailed(e) == [v |-> 0, err |-> e]

\* len(T(x)) for a field of a built-in type T, len(x) otherwise: only str
\* (and bytes) have a length, the integer classes and the generated
\* classes define no __len__
LenElem(m, v) ==
    IF m.type = "string" /\ v.k = "str" THEN Sized(Len(v.s))
    ELSE SizeFailed("TypeError")

RECURSIVE SizeList(_, _, _, _)
SizeList(m, xs, i, size) ==
    IF i > Len(xs) THEN Sized(size)
    ELSE Local([n \in {LenElem(m, xs[i])} |->
                 IF n.err # "none" THEN n
                 ELSE SizeList(m, xs, i + 1, size + n.v)])

\* size_stmt of one non-injected field, added to size
SizeField(m, o, size) ==
    IF m.if_clause # NoExpr /\ ~Cond(m.if_clause, o.f) THEN Sized(size)
    ELSE LET v == o.f[m.name]
         IN  IF m.is_array
             THEN (IF IsBytes(m)
                   THEN (IF v.k = "bytes" THEN Sized(size + Len(v.b))
                         ELSE SizeFailed("TypeError"))
                   ELSE IF v.k = "list" THEN SizeList(m, v.l, 1, size)
                   ELSE SizeFailed("TypeError"))
             ELSE Local([n \in {LenElem(m, v)} |->
                          IF n.err # "none" THEN n ELSE Sized(size + n.v)])

RECURSIVE SizeFields(_, _, _)
SizeFields(o, j, size) ==
    IF j > Len(Schema[o.cls]) THEN Sized(size)
    ELSE IF Schema[o.cls][j].injected THEN SizeFields(o, j + 1, size)
    ELSE Local([n \in {SizeField(Schema[o.cls][j], o, size)} |->
                 IF n.err # "none" THEN n ELSE SizeFields(o, j + 1, n.v)])

\* the generated get_size(self)
get_size(o) == SizeFields(o, 1, 0)

----------------------------------------------------------------------------
(* The digest of buggy_md5.py.  A 32-bit word is the pair <<high 16 bits,  *)
(* low 16 bits>>, so that every intermediate value stays a small integer.  *)

RECURSIVE BitAnd(_, _)
BitAnd(a, b) ==
    IF a = 0 \/ b = 0 THEN 0
    ELSE ((a % 2) * (b % 2)) + (2 * BitAnd(a \div 2, b \div 2))

RECURSIVE BitOr(_, _)
BitOr(a, b) ==
    IF a = 0 THEN b
    ELSE IF b = 0 THEN a
    ELSE (IF a % 2 = 1 \/ b % 2 = 1 THEN 1 ELSE 0)
         + (2 * BitOr(a \div 2, b \div 2))

RECURSIVE BitXor(_, _)
BitXor(a, b) ==
    IF a = 0 THEN b
    ELSE IF b = 0 THEN a
    ELSE ((a + b) % 2) + (2 * BitXor(a \div 2, b \div 2))

\* x & y, x | y, x ^ y and ~x & 0xFFFFFFFF on words
And(x, y) == <<BitAnd(x[1], y[1]), BitAnd(x[2], y[2])>>
Or(x, y) == <<BitOr(x[1], y[1]), BitOr(x[2], y[2])>>
Xor(x, y) == <<BitXor(x[1], y[1]), BitXor(x[2], y[2])>>
Not(x) == <<65535 - x[1], 65535 - x[2]>>

\* (x + y) & 0xFFFFFFFF
Add(x, y) ==
    <<(x[1] + y[1] + ((x[2] + y[2]) \div 65536)) % 65536,
      (x[2] + y[2]) % 65536>>

MD5_f1(b, c, d) == Or(And(b, c), And(Not(b), d))
MD5_f2(b, c, d) == Or(And(b, d), And(c, Not(d)))
MD5_f3(b, c, d) == Xor(Xor(b, c), d)
MD5_f4(b, c, d) == Xor(c, Or(b, Not(d)))

RECURSIVE Pow2(_)
Pow2(n) == IF n = 0 THEN 1 ELSE 2 * Pow2(n - 1)

\* leftrotate by c < 16
RotateHalf(x, c) ==
    <<((x[1] * Pow2(c)) % 65536) + (x[2] \div Pow2(16 - c)),
      ((x[2] * Pow2(c)) % 65536) + (x[1] \div Pow2(16 - c))>>

\* ((x << c) | (x >> (32 - c))) & 0xFFFFFFFF, 0 < c < 32
leftrotate(x, c) ==
    IF c < 16 THEN RotateHalf(x, c) ELSE RotateHalf(<<x[2], x[1]>>, c - 16)

\* the per-round shift amounts
shifts ==
    <<7, 12, 17, 22, 7, 12, 17, 22, 7, 12, 17, 22, 7, 12, 17, 22,
      5, 9, 14, 20, 5, 9, 14, 20, 5, 9, 14, 20, 5, 9, 14, 20,
      4, 11, 16, 23, 4, 11, 16, 23, 4, 11, 16, 23, 4, 11, 16, 23,
      6, 10, 15, 21, 6, 10, 15, 21, 6, 10, 15, 21, 6, 10, 15, 21>>

\* floor(2**32 * abs(sin(i + 1))) & 0xFFFFFFFF for i = 0 .. 63
SineTable ==
    <<
      <<55146, 42104>>, <<59591, 46934>>, <<9248, 28891>>, <<49597, 52974>>,
      <<62844, 4015>>, <<18311, 50730>>, <<43056, 17939>>, <<64838, 38145>>,
      <<27008, 39128>>, <<35652, 63407>>, <<65535, 23473>>, <<35164, 55230>>,
      <<27536, 4386>>, <<64920, 29075>>, <<42617, 17294>>, <<18868, 2081>>,
      <<63006, 9570>>, <<49216, 45888>>, <<9822, 23121>>, <<59830, 51114>>,
      <<54831, 4189>>, <<580, 5203>>, <<55457, 59009>>, <<59347, 64456>>,
      <<8673, 52710>>, <<49975, 2006>>, <<62677, 3463>>, <<17754, 5357>>,
      <<43491, 59653>>, <<64751, 41976>>, <<26479, 729>>, <<36138, 19594>>,
      <<65530, 14658>>, <<34673, 63105>>, <<28061, 24866>>, <<64997, 14348>>,
      <<42174, 59972>>, <<19422, 53161>>, <<63163, 19296>>, <<48831, 48240>>,
      <<10395, 32454>>, <<60065, 10234>>, <<54511, 12421>>, <<1160, 7429>>,
      <<55764, 53305>>, <<59099, 39397>>, <<8098, 31992>>, <<50348, 22117>>,
      <<62505, 8772>>, <<17194, 65431>>, <<43924, 9127>>, <<64659, 41017>>,
      <<25947, 22979>>, <<36620, 52370>>, <<65519, 62589>>, <<34180, 24017>>,
      <<28584, 32335>>, <<65068, 59104>>, <<41729, 17172>>, <<19976, 4513>>,
      <<63315, 32386>>, <<48442, 62005>>, <<10967, 53947>>, <<60294, 54161>>>>

\* the table without the overwritten entries
K_standard == SineTable

\* the table the digest uses: the sine table with eight entries overwritten
\* (K[i] of the code is K[i + 1] here)
K ==
    [SineTable EXCEPT
        ![2] = <<59607, 46934>>,   \* K[1] = 0xe8d7b756
        ![7] = <<43056, 17955>>,   \* K[6] = 0xa8304623
        ![13] = <<27551, 4386>>,   \* K[12] = 0x6b9f1122
        ![16] = <<14772, 2081>>,   \* K[15] = 0x39b40821
        ![20] = <<51638, 51114>>,   \* K[19] = 0xc9b6c7aa
        ![22] = <<580, 13395>>,   \* K[21] = 0x02443453
        ![25] = <<8689, 52710>>,   \* K[24] = 0x21f1cde6
        ![28] = <<18266, 5357>>    \* K[27] = 0x475a14ed
    ]

\* the initial words 0x67452301, 0xefcdab89, 0x98badcfe, 0x10325476 that the
\* code has in comments
MD5_standard ==
    <<<<26437, 8961>>, <<61389, 43913>>, <<39098, 56574>>, <<4146, 21622>>>>

\* MD5.__init__: self.hash_pieces = a0, b0, c0, d0, which are
\* 0x67452301, 0xefdcab89, 0x98badcfe, 0x10325746
MD5 == <<<<26437, 8961>>, <<61404, 43913>>, <<39098, 56574>>, <<4146, 22342>>>>

\* 1. Pre-processing: 0x80, zeros up to 56 mod 64, the length in bits as
\* eight little-endian bytes (a length below 2^28 bytes fills four of them)
Padded(arg) ==
    arg \o <<128>> \o [i \in 1..((119 - Len(arg)) % 64) |-> 0]
        \o to_bytes(8 * Len(arg), 4, FALSE) \o <<0, 0, 0, 0>>

\* int.from_bytes(chunks[4*g : 4*g+4], byteorder='little')
ChunkWord(chunks, g) ==
    <<(chunks[4 * g + 4] * 256) + chunks[4 * g + 3],
      (chunks[4 * g + 2] * 256) + chunks[4 * g + 1]>>

RoundF(i, B, C, D) ==
    IF i <= 15 THEN MD5_f1(B, C, D)
    ELSE IF i <= 31 THEN MD5_f2(B, C, D)
    ELSE IF i <= 47 THEN MD5_f3(B, C, D)
    ELSE MD5_f4(B, C, D)

RoundG(i) ==
    IF i <= 15 THEN i
    ELSE IF i <= 31 THEN (5 * i + 1) % 16
    ELSE IF i <= 47 THEN (3 * i + 5) % 16
    ELSE (7 * i) % 16

\* one pass of the main loop: A, B, C, D = D, new_B, B, C
Round(chunks, st) ==
    [i |-> st.i + 1,
     A |-> st.D,
     B |-> Add(st.B,
               leftrotate(Add(Add(Add(st.A, RoundF(st.i, st.B, st.C, st.D)),
                                  K[st.i + 1]),
                              ChunkWord(chunks, RoundG(st.i))),
                          shifts[st.i + 1])),
     C |-> st.B,
     D |-> st.C]

\* 2.c. Main loop: for i in range(64)
RECURSIVE MainLoop(_, _)
MainLoop(chunks, st) ==
    IF st.i = 64 THEN <<st.A, st.B, st.C, st.D>>
    ELSE MainLoop(chunks, Round(chunks, st))

\* a0 = (a0 + A) & 0xFFFFFFFF ...
AddChunk(h, r) ==
    <<Add(h[1], r[1]), Add(h[2], r[2]), Add(h[3], r[3]), Add(h[4], r[4])>>

\* for offset in range(0, len(data), 64)
RECURSIVE Chunks(_, _, _)
Chunks(padded, offset, h) ==
    IF offset >= Len(padded) THEN h
    ELSE Chunks(padded, offset + 64,
                AddChunk(h, MainLoop(SubSeq(padded, offset + 1, offset + 64),
                                     [i |-> 0, A |-> h[1], B |-> h[2],
                                      C |-> h[3], D |-> h[4]])))

\* MD5.update(arg): the new hash_pieces
update(hash_pieces, arg) == Chunks(Padded(arg), 0, hash_pieces)

\* the two hexadecimal digits of a byte, lower case
HexByte(b) ==
    <<IF b \div 16 < 10 THEN 48 + (b \div 16) ELSE 87 + (b \div 16),
      IF b % 16 < 10 THEN 48 + (b % 16) ELSE 87 + (b % 16)>>

\* the four bytes of a word, least significant first, in hexadecimal
HexWord(x) ==
    HexByte(x[2] % 256) \o HexByte(x[2] \div 256)
        \o HexByte(x[1] % 256) \o HexByte(x[1] \div 256)

\* MD5.hexdigest()
hexdigest(hash_pieces) ==
    HexWord(hash_pieces[1]) \o HexWord(hash_pieces[2])
        \o HexWord(hash_pieces[3]) \o HexWord(hash_pieces[4])

----------------------------------------------------------------------------
(* The blueprint envelope of blueprint.py.  A text is the sequence of its  *)
(* character codes (the file is read as ASCII); an index is Python's,      *)
(* counted from 0.                                                         *)

Quote == 34
Comma == 44

\* 'BLUEPRINT:'
Prefix == <<66, 76, 85, 69, 80, 82, 73, 78, 84, 58>>

\* the upper limit of the search for the opening quote
FindLimit == 8192

\* data[a:b] for 0 <= a
Slice(d, a, b) == SubSeq(d, a + 1, Min(b, Len(d)))

\* the indices of ch in d[start:end]
Hits(d, ch, start, end) ==
    {i \in start..(Min(end, Len(d)) - 1) : d[i + 1] = ch}

\* d.find(ch, start, end) and d.rfind(ch, start)
Find(d, ch, start, end) ==
    IF Hits(d, ch, start, end) = {} THEN -1
    ELSE CHOOSE i \in Hits(d, ch, start, end) :
            \A j \in Hits(d, ch, start, end) : i <= j

RFind(d, ch, start) ==
    IF Hits(d, ch, start, Len(d)) = {} THEN -1
    ELSE CHOOSE i \in Hits(d, ch, start, Len(d)) :
            \A j \in Hits(d, ch, start, Len(d)) : j <= i

\* d.split(ch): the entries between the occurrences of ch
RECURSIVE SplitFrom(_, _, _, _)
SplitFrom(d, ch, i, entry) ==
    IF i > Len(d) THEN <<entry>>
    ELSE IF d[i] = ch THEN <<entry>> \o SplitFrom(d, ch, i + 1, <<>>)
    ELSE SplitFrom(d, ch, i + 1, Append(entry, d[i]))

Split(d, ch) == SplitFrom(d, ch, 1, <<>>)

\* str.lower() and str.upper() on ASCII
Lower(d) ==
    [i \in 1..Len(d) |-> IF d[i] >= 65 /\ d[i] <= 90 THEN d[i] + 32 ELSE d[i]]
Upper(d) ==
    [i \in 1..Len(d) |-> IF d[i] >= 97 /\ d[i] <= 122 THEN d[i] - 32 ELSE d[i]]

IsDigit(c) == c >= 48 /\ c <= 57

\* d without the white space (codes 9..13 and 28..32) at both ends, as
\* int() takes it
RECURSIVE Strip(_)
Strip(d) ==
    IF d # <<>> /\ Head(d) \in (9..13) \cup (28..32) THEN Strip(Tail(d))
    ELSE IF d # <<>> /\ d[Len(d)] \in (9..13) \cup (28..32)
    THEN Strip(SubSeq(d, 1, Len(d) - 1))
    ELSE d

\* whether body is decimal digits, with single underscores (95) allowed
\* between them
IsDecimal(body) ==
    /\ body # <<>>
    /\ IsDigit(body[1]) /\ IsDigit(body[Len(body)])
    /\ \A i \in 1..Len(body) : IsDigit(body[i]) \/ body[i] = 95
    /\ \A i \in 1..(Len(body) - 1) :
          ~(body[i] = 95 /\ body[i + 1] = 95)

RECURSIVE DecimalValue(_, _)
DecimalValue(body, acc) ==
    IF body = <<>> THEN acc
    ELSE IF Head(body) = 95 THEN DecimalValue(Tail(body), acc)
    ELSE DecimalValue(Tail(body), (10 * acc) + (Head(body) - 48))

\* int(text) of at most nine digits: white space stripped, one sign (+ is
\* 43, - is 45), then the digits
int(d) ==
    Local([t \in {Strip(d)} |->
            Local([body \in {IF t # <<>> /\ t[1] \in {43, 45}
                             THEN Tail(t) ELSE t} |->
                    IF IsDecimal(body)
                    THEN Ret(IntV((IF t[1] = 45 THEN -1 ELSE 1)
                                  * DecimalValue(body, 0)), 0)
                    ELSE Raise("ValueError", 0)])])

\* the value of a hexadecimal digit, -1 for any other character
HexValue(c) ==
    IF IsDigit(c) THEN c - 48
    ELSE IF c >= 97 /\ c <= 102 THEN c - 87
    ELSE IF c >= 65 /\ c <= 70 THEN c - 55
    ELSE -1

\* urllib.parse.unquote for escapes below %80: %XX (% is 37) becomes the
\* character XX, a % not followed by two hexadecimal digits stays
RECURSIVE unquote(_)
unquote(d) ==
    IF d = <<>> THEN <<>>
    ELSE IF d[1] = 37 /\ Len(d) >= 3
            /\ HexValue(d[2]) >= 0 /\ HexValue(d[3]) >= 0
    THEN <<(16 * HexValue(d[2])) + HexValue(d[3])>>
            \o unquote(SubSeq(d, 4, Len(d)))
    ELSE <<d[1]>> \o unquote(Tail(d))

\* the values of EIconLayout
EIconLayout ==
    {0, 1, 10, 11, 20, 21, 22, 23, 24, 30, 31, 32, 33, 40, 41, 50, 51}

\* datetime_from_tick(tick).  Every tick the model holds lies in the first
\* minutes of year 1, where datetime.fromtimestamp returns or raises
\* ValueError depending on the local UTC offset: both outcomes.
datetime_from_tick(tick) ==
    {Ret([k |-> "datetime", tick |-> tick], 0), Raise("ValueError", 0)}

\* datetime_from_tick(int(entry)): int raises, or the tick is converted
Time(r) == IF r.err # "none" THEN {r} ELSE datetime_from_tick(r.v.v)

\* the first exception among the conversions of the return statement,
\* "none" when all of them return
RECURSIVE FirstError(_)
FirstError(rs) ==
    IF rs = <<>> THEN "none"
    ELSE IF Head(rs).err # "none" THEN Head(rs).err
    ELSE FirstError(Tail(rs))

\* EIconLayout(n)
Layout(r) ==
    IF r.err # "none" THEN r
    ELSE IF r.v.v \in EIconLayout THEN r
    ELSE Raise("ValueError", 0)

\* Blueprint(EIconLayout(int(header_array[1])), ..., data), with time the
\* outcome of datetime_from_tick(int(header_array[8]))
Blueprint(h, time, parsed) ==
    IF FirstError(<<Layout(int(h[2])), int(h[3]), int(h[4]), int(h[5]),
                    int(h[6]), int(h[7]), time>>) # "none"
    THEN Raise(FirstError(<<Layout(int(h[2])), int(h[3]), int(h[4]),
                            int(h[5]), int(h[6]), int(h[7]), time>>), 0)
    ELSE Ret([k |-> "Blueprint", layout |-> int(h[2]).v.v,
              icon0 |-> int(h[3]).v.v, icon1 |-> int(h[4]).v.v,
              icon2 |-> int(h[5]).v.v, icon3 |-> int(h[6]).v.v,
              icon4 |-> int(h[7]).v.v, time |-> time.v,
              game_version |-> h[10], short_desc |-> unquote(h[11]),
              desc |-> unquote(h[12]), data |-> parsed], 0)

\* the last quote of the text taken as the opening quote
begin_pos_last(d) == RFind(d, Quote, 28)

\* data_begin_pos = data.find('"', 28, min(len(data), 8192))
begin_pos(d) == Find(d, Quote, 28, Min(Len(d), FindLimit))

\* check_idx with the window of a 32-character trailer only
check_idx_32(d) == Max(Len(d) - 33, 0)

\* check_idx = max(len(data) - 36, 0)
check_idx(d) == Max(Len(d) - 36, 0)

\* data_end_pos = data.rfind('"', check_idx)
end_pos(d) == RFind(d, Quote, check_idx(d))

\* the text up to and including the closing quote
signed_text_with_quote(d, end) == Slice(d, 0, end + 1)

\* the text the digest is taken of: data[:data_end_pos]
signed_text(d, end) == Slice(d, 0, end)

\* md5_obj = MD5(); md5_obj.update(...); md5_obj.hexdigest().lower()
compute_sign(d, end) == Lower(hexdigest(update(MD5, signed_text(d, end))))

\* data[data_end_pos+1:data_end_pos+33].lower()
recorded_sign(d, end) == Lower(Slice(d, end + 1, end + 33))

\* a comparison that lets every signature pass
sign_unchecked(sign, expected) == TRUE

\* the comparison of the signature assert
sign_matches(sign, expected) == sign = expected

----------------------------------------------------------------------------
(* One class exercised on its own, a primitive of common.py or a generated *)
(* record, in both directions: a value is saved and the bytes written are  *)
(* parsed again, or a byte stream is parsed, the value obtained is saved   *)
(* again and, for a record, its size is queried.                           *)

\* cls.parse(stream) of a built-in class, cls.parse(stream, props) of a
\* generated one
cls_parse(t, s, p) ==
    IF t \in PrimTypes THEN prim_parse(t, s, p)
    ELSE ParseRecord(t, s, p, RootProps(t))

\* value.save(stream)
cls_save(t, v) ==
    IF t \in PrimTypes THEN prim_save(t, v) ELSE SaveRecord(v)

RECURSIVE SeqsUpTo(_, _)
SeqsUpTo(S, n) ==
    IF n = 0 THEN {<<>>}
    ELSE LET shorter == SeqsUpTo(S, n - 1)
         IN  shorter \cup {Append(q, x) : q \in shorter, x \in S}

\* the bytes the parsed streams are made of: 0x00 0x01 0x02 0x04, 'A',
\* 0x81, the two bytes of U+00E9, 0xFF
ByteAlphabet == {0, 1, 2, 4, 65, 129, 195, 169, 255}

\* the bytes of the streams handed to a record's parse (counts of at most
\* three elements, 0xFF for -1)
RecordAlphabet == {0, 1, 2, 3, 255}

\* a FlexibleInt indicator followed by up to four payload bytes
FlexStreams ==
    {<<i>> \o q : i \in {0, 1, 2, 3, 4, 5, 255},
                   q \in SeqsUpTo({0, 4, 255}, 4)}

\* the four bytes of float32 values at and next to 1.0, of 0.0 and -0.0,
\* with up to one byte after them
FloatStreams ==
    {<<b, 0, 128, 63>> \o q : b \in {0, 1, 8, 9}, q \in {<<>>, <<0>>}}
        \cup {<<b, 255, 127, 63>> : b \in {239, 240, 255}}
        \cup {<<0, 0, 0, 0>>, <<0, 0, 0, 128>>, <<0, 0, 128, 191>>}

\* a string of one or two characters, with up to one byte after it
NameStreams ==
    {<<1, 65>>, <<1, 66>>, <<1, 65, 0>>, <<2, 65, 65>>, <<2, 65>>}

RawStreams(t) ==
    IF t \in PrimTypes
    THEN SeqsUpTo(ByteAlphabet, MaxStreamLen)
            \cup (IF t = "FlexibleInt" THEN FlexStreams ELSE {})
            \cup (IF t = "float32" THEN FloatStreams ELSE {})
    ELSE SeqsUpTo(RecordAlphabet, MaxRecordLen)
            \cup (IF t = "Flags"
                  THEN {<<b>> \o q : b \in {0, 1, 2}, q \in FlexStreams}
                  ELSE {})
            \cup (IF t = "Approx" THEN FloatStreams ELSE {})
            \cup (IF t = "Name" THEN NameStreams ELSE {})

MinInt32 == -2147483647 - 1
MaxInt32 == 2147483647

\* the values handed to cls(v).save
SaveInputs(t) ==
    CASE t = "varint" ->
            {IntV(n) : n \in (0..MaxVarint)
                \cup {16383, 16384, 2097151, 2097152, 268435455}}
      [] t = "FlexibleInt" ->
            {IntV(n) : n \in ((-MaxFlex)..MaxFlex)
                \cup {254, 255, 256, 257, 65535, 65536, 65537, 16777215,
                      16777216, 16777217, MaxInt32, MinInt32, -256, -65536}}
      [] t = "boolean" -> {IntV(0), IntV(1)}
      [] t = "string" -> {StrV(<<>>), StrV(<<65>>), StrV(<<233, 65>>)}
      [] t = "float32" ->
            {FloatV(0, 127, 0), FloatV(0, 127, 1), FloatV(1, 126, 8388607),
             FloatV(0, 0, 0), FloatV(0, 1, 0)}
      [] t \in FixedTypes ->
            {IntV(n) : n \in {-8388609, -8388608, -129, -128, -1, 0, 1, 127,
                              128, 255, 256, 65535, 8388607, 8388608}}

\* no MD5 object is at work
NoDigest ==
    /\ md5_obj = <<>>
    /\ md5_args = <<>>

\* the generator takes no part in a run of the codecs or of the loader
NoGenerator ==
    /\ def_file = <<>>
    /\ f_def = <<>>
    /\ out_py_file = <<>>
    /\ def_file_sha256 = ""
    /\ class_attrs = <<>>
    /\ var_meta = None
    /\ global_class_defs = <<>>
    /\ generated_template_classes = {}
    /\ template_class_gen_list = <<>>
    /\ files = <<>>

CodecInit ==
    /\ \/ /\ pc = "new"
          /\ cls \in PrimTypes
          /\ value \in SaveInputs(cls)
          /\ stream = <<>>
       \/ /\ pc = "raw"
          /\ cls \in PrimTypes \cup RootClasses
          /\ value = None
          /\ stream \in RawStreams(cls)
    /\ pos = 0
    /\ out = <<>>
    /\ result = None
    /\ err = "none"
    /\ file = <<>>
    /\ data = None
    /\ data_begin_pos = -1
    /\ header_array = <<>>
    /\ data_end_pos = -1
    /\ data_sign = <<>>
    /\ expected_sign = <<>>
    /\ blobs = None
    /\ msg = <<>>
    /\ NoGenerator
    /\ NoDigest

\* cls(value).save(out)
CodecSave ==
    /\ pc = "new"
    /\ \E w \in {cls_save(cls, value)} :
        /\ out' = w.b
        /\ err' = w.err
        /\ pc' = IF w.err = "none" THEN "saved" ELSE "save_failed"
    /\ UNCHANGED <<cls, stream, pos, value, result>>
    /\ UNCHANGED load_vars
    /\ UNCHANGED gen_vars
    /\ UNCHANGED md5_vars

\* out.seek(0); result = cls.parse(out)
CodecReparse ==
    /\ pc = "saved"
    /\ \E r \in {cls_parse(cls, out, 0)} :
        /\ result' = r.v
        /\ pos' = r.pos
        /\ err' = r.err
        /\ pc' = IF r.err = "none" THEN "reparsed" ELSE "reparse_failed"
    /\ UNCHANGED <<cls, stream, value, out>>
    /\ UNCHANGED load_vars
    /\ UNCHANGED gen_vars
    /\ UNCHANGED md5_vars

\* value = cls.parse(stream)
CodecParse ==
    /\ pc = "raw"
    /\ \E r \in {cls_parse(cls, stream, 0)} :
        /\ value' = r.v
        /\ pos' = r.pos
        /\ err' = r.err
        /\ pc' = IF r.err = "none" THEN "parsed" ELSE "parse_failed"
    /\ UNCHANGED <<cls, stream, out, result>>
    /\ UNCHANGED load_vars
    /\ UNCHANGED gen_vars
    /\ UNCHANGED md5_vars

\* value.save(out) of a parsed value
CodecResave ==
    /\ pc = "parsed"
    /\ \E w \in {cls_save(cls, value)} :
        /\ out' = w.b
        /\ err' = w.err
        /\ pc' = IF w.err = "none" THEN "resaved" ELSE "resave_failed"
    /\ UNCHANGED <<cls, stream, pos, value, result>>
    /\ UNCHANGED load_vars
    /\ UNCHANGED gen_vars
    /\ UNCHANGED md5_vars

\* result = value.get_size() of a parsed record
CodecGetSize ==
    /\ pc = "resaved"
    /\ cls \in RecordClasses
    /\ \E n \in {get_size(value)} :
        /\ result' = IntV(n.v)
        /\ err' = n.err
        /\ pc' = IF n.err = "none" THEN "sized" ELSE "size_failed"
    /\ UNCHANGED <<cls, stream, pos, value, out>>
    /\ UNCHANGED load_vars
    /\ UNCHANGED gen_vars
    /\ UNCHANGED md5_vars

\* result = cls(...): a record built from the fields of the parsed one, no
\* location given
CodecConstruct ==
    /\ pc = "parsed"
    /\ cls \in RecordClasses
    /\ result = None
    /\ result' = New(cls, value.f)
    /\ UNCHANGED <<pc, cls, stream, pos, value, out, err>>
    /\ UNCHANGED load_vars
    /\ UNCHANGED gen_vars
    /\ UNCHANGED md5_vars

CodecNext ==
    \/ CodecSave \/ CodecReparse \/ CodecParse \/ CodecResave
    \/ CodecGetSize \/ CodecConstruct

SpecCodec == CodecInit /\ [][CodecNext]_vars


----------------------------------------------------------------------------
(* load_blueprint_data, one step per stage, on a family of blueprint files *)

\* the text before the opening quote:
\*   BLUEPRINT:0,10,0,0,0,0,0,0,0,0.9,n,d  (twelve entries)
\*   BLUEPRINT:0,1,7,0,0,0,0,0,0,0,%41,b%20c,  (thirteen entries, percent
\*       escapes in entries 10 and 11)
\*   BLUEPRINT:0,10,1,2,3,4,5,0,0,"1.0","hi","there",  (quoted entries: the
\*       first quote at or after offset 28 is at 29)
\*   BLUEPRINT:0,5,0,0,0,0,0,0,0,0.9,n,d  (entry 1 is no EIconLayout value)
\*   BLUEPRINT:0,10,x,0,0,0,0,0,0,0.9,n,d  (entry 2 is no integer)
\*   BLUEPRINX:0,10,0,0,0,0,0,0,0,0.9,n,d  (not the literal BLUEPRINT:)
\*   BLUEPRINT:0,10,0,0,0  (five entries, shorter than 28 characters)
\*   BLUEPRINT:0,10,1,2,3,4,5,0,0,1.0,hi,there  (twelve entries, five icons)
Headers ==
    {<<66, 76, 85, 69, 80, 82, 73, 78, 84, 58, 48, 44, 49, 48, 44, 48, 44,
      48, 44, 48, 44, 48, 44, 48, 44, 48, 44, 48, 44, 48, 46, 57, 44, 110,
      44, 100>>,
     <<66, 76, 85, 69, 80, 82, 73, 78, 84, 58, 48, 44, 49, 44, 55, 44, 48,
      44, 48, 44, 48, 44, 48, 44, 48, 44, 48, 44, 48, 44, 37, 52, 49, 44,
      98, 37, 50, 48, 99, 44>>,
     <<66, 76, 85, 69, 80, 82, 73, 78, 84, 58, 48, 44, 49, 48, 44, 49, 44,
      50, 44, 51, 44, 52, 44, 53, 44, 48, 44, 48, 44, 34, 49, 46, 48, 34,
      44, 34, 104, 105, 34, 44, 34, 116, 104, 101, 114, 101, 34, 44>>,
     <<66, 76, 85, 69, 80, 82, 73, 78, 84, 58, 48, 44, 53, 44, 48, 44, 48,
      44, 48, 44, 48, 44, 48, 44, 48, 44, 48, 44, 48, 46, 57, 44, 110, 44,
      100>>,
     <<66, 76, 85, 69, 80, 82, 73, 78, 84, 58, 48, 44, 49, 48, 44, 120, 44,
      48, 44, 48, 44, 48, 44, 48, 44, 48, 44, 48, 44, 48, 46, 57, 44, 110,
      44, 100>>,
     <<66, 76, 85, 69, 80, 82, 73, 78, 88, 58, 48, 44, 49, 48, 44, 48, 44,
      48, 44, 48, 44, 48, 44, 48, 44, 48, 44, 48, 44, 48, 46, 57, 44, 110,
      44, 100>>,
     <<66, 76, 85, 69, 80, 82, 73, 78, 84, 58, 48, 44, 49, 48, 44, 48, 44,
      48, 44, 48>>,
     <<66, 76, 85, 69, 80, 82, 73, 78, 84, 58, 48, 44, 49, 48, 44, 49, 44,
      50, 44, 51, 44, 52, 44, 53, 44, 48, 44, 48, 44, 49, 46, 48, 44, 104,
      105, 44, 116, 104, 101, 114, 101>>}

\* the base64 payloads: none, AAAA, QUJD
Payloads == {<<>>, <<65, 65, 65, 65>>, <<81, 85, 74, 68>>}

\* what follows the signature: up to MaxTrailer spaces, a newline, a quote
Trailers ==
    {[i \in 1..n |-> 32] : n \in 0..MaxTrailer} \cup {<<10>>, <<Quote>>}

\* a signature with its first digit changed
Flip(sign) == <<IF sign[1] = 48 THEN 49 ELSE 48>> \o Tail(sign)

\* the signatures a file is given: the digest of the text before the
\* closing quote, that digest in upper case, the digest of the text with
\* the closing quote, a digest with a wrong digit, one of 31 digits
SignaturesFrom(sign, with_quote) ==
    {sign, Upper(sign), with_quote, Flip(sign), SubSeq(sign, 1, 31)}

\* text, a closing quote, a signature of text, a trailer
Signed(text) ==
    {text \o <<Quote>> \o sign \o t :
        sign \in SignaturesFrom(hexdigest(update(MD5, text)),
                                hexdigest(update(MD5, text \o <<Quote>>))),
        t \in Trailers}

\* header"payload"signature, header"signature (one quote only), header
BlueprintFiles ==
    UNION {Signed(h \o <<Quote>> \o p) : h \in Headers, p \in Payloads}
        \cup UNION {Signed(h) : h \in Headers}
        \cup Headers

\* a failed assert, or an exception of a callee, with its message
Fail(e, m) == pc' = "failed" /\ err' = e /\ msg' = m

Continue(next) == pc' = next /\ UNCHANGED <<err, msg>>

BlueprintInit ==
    /\ pc = "start"
    /\ file \in BlueprintFiles
    /\ data = None
    /\ data_begin_pos = -1
    /\ header_array = <<>>
    /\ data_end_pos = -1
    /\ data_sign = <<>>
    /\ expected_sign = <<>>
    /\ blobs = None
    /\ msg = <<>>
    /\ result = None
    /\ err = "none"
    /\ cls = "BlueprintData"
    /\ stream = <<>>
    /\ pos = 0
    /\ value = None
    /\ out = <<>>
    /\ NoGenerator
    /\ NoDigest

\* with open(file, 'r', encoding='ascii') as f: data = f.read()
LoadRead ==
    /\ pc = "start"
    /\ data' = file
    /\ Continue("read")
    /\ UNCHANGED <<file, data_begin_pos, header_array, data_end_pos,
                   data_sign, expected_sign, blobs, result>>
    /\ UNCHANGED codec_vars
    /\ UNCHANGED gen_vars
    /\ UNCHANGED md5_vars

\* the asserts on the length and the prefix, the opening quote, the header
LoadHeader ==
    /\ pc = "read"
    /\ IF Len(data) < 28
       THEN /\ Fail("AssertionError", <<"length corrupt", Len(data)>>)
            /\ UNCHANGED <<data_begin_pos, header_array>>
       ELSE IF SubSeq(data, 1, Len(Prefix)) # Prefix
       THEN /\ Fail("AssertionError", <<"corrupt header">>)
            /\ UNCHANGED <<data_begin_pos, header_array>>
       ELSE /\ data_begin_pos' = begin_pos(data)
            /\ IF data_begin_pos' < 0
               THEN /\ Fail("AssertionError", <<"corrupt data, beginning">>)
                    /\ UNCHANGED header_array
               ELSE /\ header_array' =
                          Split(Slice(data, 10, data_begin_pos'), Comma)
                    /\ IF Len(header_array') >= 12
                       THEN Continue("header_ok")
                       ELSE Fail("AssertionError",
                                 <<"invalid header array length",
                                   Len(header_array')>>)
    /\ UNCHANGED <<file, data, data_end_pos, data_sign, expected_sign,
                   blobs, result>>
    /\ UNCHANGED codec_vars
    /\ UNCHANGED gen_vars
    /\ UNCHANGED md5_vars

\* check_idx, data_end_pos and the two asserts on the closing quote
LoadLocateEnd ==
    /\ pc = "header_ok"
    /\ data_end_pos' = end_pos(data)
    /\ IF data_end_pos' < 0
       THEN Fail("AssertionError", <<"corrupt data, end">>)
       ELSE IF Len(data) - 1 - data_end_pos' >= 32
       THEN Continue("located")
       ELSE Fail("AssertionError", <<"invalid position for quote char">>)
    /\ UNCHANGED <<file, data, data_begin_pos, header_array, data_sign,
                   expected_sign, blobs, result>>
    /\ UNCHANGED codec_vars
    /\ UNCHANGED gen_vars
    /\ UNCHANGED md5_vars

\* data_sign, expected_sign and the assert that they are equal
LoadCheckSign ==
    /\ pc = "located"
    /\ data_sign' = compute_sign(data, data_end_pos)
    /\ expected_sign' = recorded_sign(data, data_end_pos)
    /\ IF sign_matches(data_sign', expected_sign')
       THEN Continue("signed")
       ELSE Fail("AssertionError",
                 <<"md5 signature check failed", data_sign', expected_sign'>>)
    /\ UNCHANGED <<file, data, data_begin_pos, header_array, data_end_pos,
                   blobs, result>>
    /\ UNCHANGED codec_vars
    /\ UNCHANGED gen_vars
    /\ UNCHANGED md5_vars

\* blobs = b64decode(data[data_begin_pos+1:data_end_pos].encode('ascii')):
\* base64 is a collaborator, it returns or raises binascii.Error
LoadDecode ==
    /\ pc = "signed"
    /\ \/ /\ blobs' = [stage |-> "b64decoded",
                       of |-> Slice(data, data_begin_pos + 1, data_end_pos)]
          /\ Continue("decoded")
       \/ /\ blobs' = [stage |-> "encoded",
                       of |-> Slice(data, data_begin_pos + 1, data_end_pos)]
          /\ Fail("binascii.Error", <<"b64decode">>)
    /\ UNCHANGED <<file, data, data_begin_pos, header_array, data_end_pos,
                   data_sign, expected_sign, result>>
    /\ UNCHANGED codec_vars
    /\ UNCHANGED gen_vars
    /\ UNCHANGED md5_vars

\* blobs = decompress(blobs): gzip returns or raises
LoadDecompress ==
    /\ pc = "decoded"
    /\ \/ /\ blobs' = [blobs EXCEPT !.stage = "decompressed"]
          /\ Continue("decompressed")
       \/ /\ Fail("BadGzipFile", <<"decompress">>)
          /\ UNCHANGED blobs
    /\ UNCHANGED <<file, data, data_begin_pos, header_array, data_end_pos,
                   data_sign, expected_sign, result>>
    /\ UNCHANGED codec_vars
    /\ UNCHANGED gen_vars
    /\ UNCHANGED md5_vars

\* data = BlueprintData.parse(f): the generated parser returns or raises
LoadParse ==
    /\ pc = "decompressed"
    /\ \/ /\ data' = [k |-> "obj", cls |-> "BlueprintData", of |-> blobs.of]
          /\ Continue("parsed")
       \/ /\ Fail("AssertionError", <<"parse">>)
          /\ UNCHANGED data
    /\ UNCHANGED <<file, data_begin_pos, header_array, data_end_pos,
                   data_sign, expected_sign, blobs, result>>
    /\ UNCHANGED codec_vars
    /\ UNCHANGED gen_vars
    /\ UNCHANGED md5_vars

\* return Blueprint(...)
LoadReturn ==
    /\ pc = "parsed"
    /\ \E time \in Time(int(header_array[9])) :
          \E r \in {Blueprint(header_array, time, data)} :
             IF r.err = "none"
             THEN result' = r.v /\ Continue("returned")
             ELSE Fail(r.err, <<"return">>) /\ UNCHANGED result
    /\ UNCHANGED <<file, data, data_begin_pos, header_array, data_end_pos,
                   data_sign, expected_sign, blobs>>
    /\ UNCHANGED codec_vars
    /\ UNCHANGED gen_vars
    /\ UNCHANGED md5_vars

BlueprintNext ==
    \/ LoadRead \/ LoadHeader \/ LoadLocateEnd \/ LoadCheckSign
    \/ LoadDecode \/ LoadDecompress \/ LoadParse \/ LoadReturn

SpecBlueprint == BlueprintInit /\ [][BlueprintNext]_vars


----------------------------------------------------------------------------
(* Claims about the generated records, checked under SpecCodec.            *)

\* C1: for every record that a generated parse produced from a byte
\* stream, save writes exactly the bytes the record occupied in the source,
\* [location_start, location_end).
C1_SaveReproducesSource ==
    (cls \in RecordClasses /\ pc \in {"resaved", "resave_failed"}) =>
        /\ pc = "resaved"
        /\ out = SubSeq(stream, value.location_start + 1, value.location_end)

\* C2: for every record v obtained by parse, get_size(v) returns
\* location_end(v) - location_start(v).
C2_SizeIsExtent ==
    (cls \in RecordClasses /\ pc \in {"sized", "size_failed"}) =>
        /\ pc = "sized"
        /\ result.v = value.location_end - value.location_start

----------------------------------------------------------------------------
(* Claims about the primitive codecs, checked under SpecCodec.             *)

\* C3: for every non-negative n, varint.parse of the bytes written by
\* varint(n).save returns n.
C3_VarintRoundTrip ==
    (cls = "varint" /\ pc = "reparsed") => result.v = value.v

\* the bytes an encoder inverse to varint.parse writes: the most
\* significant 7-bit group first, the continuation bit on all but the last
RECURSIVE MsbFirstHigh(_)
MsbFirstHigh(n) ==
    IF n = 0 THEN <<>>
    ELSE MsbFirstHigh(n \div 128) \o <<128 + (n % 128)>>

MsbFirst(n) == MsbFirstHigh(n \div 128) \o <<n % 128>>

\* C4: varint(n).save writes the MSB-first encoding of n, the inverse of
\* varint.parse: <<0x82, 0x2C>> for 300 and <<0x00>> for 0.
C4_VarintSaveMsbFirst ==
    (cls = "varint" /\ pc = "saved") =>
        /\ out = MsbFirst(value.v)
        /\ value.v = 300 => out = <<130, 44>>
        /\ value.v = 0 => out = <<0>>

\* C5: for every 32-bit signed n, FlexibleInt.parse of the bytes written by
\* FlexibleInt(n).save returns n and consumes exactly those bytes.
C5_FlexRoundTrip ==
    (cls = "FlexibleInt" /\ pc \in {"reparsed", "reparse_failed"}) =>
        /\ pc = "reparsed"
        /\ result.v = value.v
        /\ pos = Len(out)

C5_Witness ==
    /\ cls = "FlexibleInt" /\ pc = "reparsed"
    /\ value.v = MinInt32 /\ result.v = MinInt32 /\ Len(out) = 5

\* the length the claim gives for the encoding of n
ClaimedFlexLen(n) ==
    IF n = 0 THEN 1
    ELSE IF n >= 1 /\ n <= 255 THEN 2
    ELSE IF n >= 256 /\ n <= 65535 THEN 3
    ELSE IF n >= 65536 /\ n <= 16777215 THEN 4
    ELSE 5

\* C6 as stated: FlexibleInt(n).save writes 1 byte for 0, 2 for 1..255,
\* 3 for 256..65535, 4 for 65536..16777215, 5 for larger or negative n.
C6_FlexLenAsClaimed ==
    (cls = "FlexibleInt" /\ pc = "saved") =>
        Len(out) = ClaimedFlexLen(value.v)

AmendedFlexLen(n) ==
    IF n = 0 \/ (n >= 5 /\ n <= 255) THEN 1
    ELSE IF n >= 1 /\ n <= 4 THEN 2
    ELSE IF n >= 256 /\ n <= 65535 THEN 3
    ELSE IF n >= 65536 /\ n <= 16777215 THEN 4
    ELSE 5

\* C6 amended: FlexibleInt(n).save writes 1 byte for 0 and for 5..255 (the
\* value is its own indicator), 2 for 1..4, 3 for 256..65535, 4 for
\* 65536..16777215, 5 for larger or negative n.
C6_FlexLen ==
    (cls = "FlexibleInt" /\ pc = "saved") =>
        Len(out) = AmendedFlexLen(value.v)

C6_Witness ==
    /\ cls = "FlexibleInt" /\ pc = "saved"
    /\ value.v = 255 /\ out = <<255>>

\* C7: `01 04` and `04 04 00 00 00` both decode to 4, saving the latter
\* writes `01 04`, and every decoded value n in 1..4 is saved as 0x01 n
\* whatever its encoding was.
C7_FlexNormalises ==
    cls = "FlexibleInt" =>
        /\ (pc \in {"parsed", "resaved"}
              /\ stream \in {<<1, 4>>, <<4, 4, 0, 0, 0>>}) => value.v = 4
        /\ (pc \in {"resaved", "resave_failed"}
              /\ stream = <<4, 4, 0, 0, 0>>) =>
              out = <<1, 4>>
        /\ (pc = "resaved" /\ value.v \in 1..4) => out = <<1, value.v>>

C7_Witness ==
    /\ cls = "FlexibleInt" /\ pc = "resaved"
    /\ stream = <<4, 4, 0, 0, 0>> /\ value.v = 4 /\ out = <<1, 4>>

----------------------------------------------------------------------------
(* Claims about load_blueprint_data, checked under SpecBlueprint.          *)

\* the signature assert has been reached
SignChecked == data_sign # <<>>

\* C8 as stated: the recorded signature is compared against the digest of
\* the text from offset 0 up to and including the closing quote.
C8_DigestIncludesQuote ==
    SignChecked =>
        data_sign = hexdigest(update(MD5, Slice(file, 0, data_end_pos + 1)))

\* C8 amended: the recorded signature, the 32 characters after the closing
\* quote in lower case, is compared against the digest of the text from
\* offset 0 up to but not including the closing quote.
C8_DigestExcludesQuote ==
    SignChecked =>
        /\ file[data_end_pos + 1] = Quote
        /\ data_sign = hexdigest(update(MD5, Slice(file, 0, data_end_pos)))
        /\ expected_sign = Lower(Slice(file, data_end_pos + 1,
                                       data_end_pos + 33))

C8_Witness ==
    /\ pc = "signed"
    /\ data_sign = expected_sign
    /\ data_sign # hexdigest(update(MD5, Slice(file, 0, data_end_pos + 1)))

\* the number of characters after the last quote of the text
AfterLastQuote(d) == Len(d) - 1 - RFind(d, Quote, 0)

\* the closing quote was looked for and rejected
ClosingQuoteRejected ==
    /\ pc = "failed"
    /\ msg[1] \in {"corrupt data, end", "invalid position for quote char"}

\* the closing quote was looked for and accepted
ClosingQuoteAccepted ==
    /\ pc \notin {"start", "read", "header_ok"}
    /\ data_end_pos >= 0
    /\ ~ClosingQuoteRejected

\* C9 as stated: a text is accepted only if its closing quote is followed
\* by exactly 32 characters.
C9_ExactlyThirtyTwo ==
    pc = "returned" => Len(file) - 1 - data_end_pos = 32

\* C9 amended: the closing quote is the last quote of the text; it is
\* accepted when 32 to 35 characters follow it and rejected when fewer
\* than 32 or more than 35 do.
C9_TrailerRange ==
    /\ ClosingQuoteAccepted =>
          /\ Len(file) - 1 - data_end_pos = AfterLastQuote(file)
          /\ AfterLastQuote(file) \in 32..35
    /\ ClosingQuoteRejected => AfterLastQuote(file) \notin 32..35

C9_Witness ==
    pc = "returned" /\ Len(file) - 1 - data_end_pos = 35

\* C10: when the computed digest differs from the recorded signature the
\* load fails with the signature error, which carries both digests, before
\* the payload is base64-decoded, decompressed or parsed, and no Blueprint
\* is returned.
C10_MismatchFailsFirst ==
    (SignChecked /\ data_sign # expected_sign) =>
        /\ pc = "failed"
        /\ err = "AssertionError"
        /\ Len(msg) = 3
        /\ msg[1] = "md5 signature check failed"
        /\ msg[2] = data_sign
        /\ msg[3] = expected_sign
        /\ blobs = None
        /\ result = None

C10_Witness ==
    /\ pc = "failed"
    /\ Len(msg) = 3
    /\ msg[1] = "md5 signature check failed"
    /\ msg[2] = hexdigest(update(MD5, Slice(file, 0, data_end_pos)))
    /\ msg[3] = Flip(msg[2])
    /\ blobs = None


----------------------------------------------------------------------------
(* Claims about the header of a blueprint, checked under SpecBlueprint.    *)

\* BLUEPRINT:0,10,1,2,3,4,5,0,0,"1.0","hi","there",  and then the opening
\* quote of the payload
QuotedExample ==
    <<66, 76, 85, 69, 80, 82, 73, 78, 84, 58, 48, 44, 49, 48, 44, 49, 44,
      50, 44, 51, 44, 52, 44, 53, 44, 48, 44, 48, 44, 34, 49, 46, 48, 34,
      44, 34, 104, 105, 34, 44, 34, 116, 104, 101, 114, 101, 34, 44, 34>>

\* BLUEPRINT:0,10,1,2,3,4,5,0,0,1.0,hi,there  and then the opening quote
PlainExample ==
    <<66, 76, 85, 69, 80, 82, 73, 78, 84, 58, 48, 44, 49, 48, 44, 49, 44,
      50, 44, 51, 44, 52, 44, 53, 44, 48, 44, 48, 44, 49, 46, 48, 44, 104,
      105, 44, 116, 104, 101, 114, 101, 34>>

\* the file starts with the text p
FileStarts(p) == Len(file) >= Len(p) /\ SubSeq(file, 1, Len(p)) = p

\* the file carries the digest of the text before its last quote
RightlySigned ==
    /\ end_pos(file) >= 0
    /\ Slice(file, end_pos(file) + 1, end_pos(file) + 33)
          = hexdigest(update(MD5, Slice(file, 0, end_pos(file))))

\* layout = ONE_ICON, icons 1..5, short_desc = "hi", desc = "there"
ExampleDecoded ==
    /\ result.layout = 10
    /\ <<result.icon0, result.icon1, result.icon2, result.icon3,
         result.icon4>> = <<1, 2, 3, 4, 5>>
    /\ result.short_desc = <<104, 105>>
    /\ result.desc = <<116, 104, 101, 114, 101>>

----------------------------------------------------------------------------
(* Claims about the generated parse, checked under SpecCodec.              *)

\* the number of bytes the fields of a record of class Fixed (two raw
\* bytes), Num (an int32) or Text (a length byte below 0x80 and that many
\* bytes of text) call for, given the stream the record is parsed from
BytesCalledFor(c, s) ==
    CASE c = "Fixed" -> 2
      [] c = "Num" -> 4
      [] c = "Text" -> IF s = <<>> \/ s[1] >= 128 THEN 1 ELSE 1 + s[1]

\* C12: parsing a record from a stream that ends before all of its fields
\* have been read fails with an error; parse returns no record whose
\* fields were built from fewer bytes than their types call for.
C12_ShortStreamFails ==
    (/\ cls \in {"Fixed", "Num", "Text"}
     /\ pc # "raw"
     /\ Len(stream) < BytesCalledFor(cls, stream)) => pc = "parse_failed"


\* the record class has been parsed from the stream, and parse returned
Parsed(c) == cls = c /\ pc \in {"parsed", "resaved", "resave_failed",
                                "sized", "size_failed"}

\* parse of the record class has raised e
ParseRaised(c, e) == cls = c /\ pc = "parse_failed" /\ err = e

\* the stream's byte at offset i, 0 past its end (what the integer classes
\* make of a read that returned nothing)
ByteAt(i) == IF i < Len(stream) THEN stream[i + 1] ELSE 0

\* C13: every record returned by a generated parse satisfies the
\* assertions on its non-injected fields: the bound value equals the
\* literal (or the referenced field).  A stream in which the value bound to
\* an asserted field differs from the asserted value makes parse raise.
C13_AssertionsHold ==
    /\ \A c \in RecordClasses :
          Parsed(c) =>
             \A j \in 1..Len(Schema[c]) :
                (Schema[c][j].assertion # NoExpr /\ ~Schema[c][j].injected)
                   => PyEq(value.f[Schema[c][j].name],
                           Eval(Schema[c][j].assertion, value.f, 0))
    /\ (cls = "Magic" /\ pc # "raw" /\ ByteAt(0) # 1)
          => ParseRaised("Magic", "AssertionError")
    /\ (cls = "Pair" /\ pc # "raw" /\ ByteAt(0) # ByteAt(1))
          => ParseRaised("Pair", "AssertionError")
    /\ (cls = "Chk" /\ pc # "raw" /\ ByteAt(0) \in 1..127 /\ ByteAt(1) # 7)
          => ParseRaised("Chk", "AssertionError")
    /\ (cls = "Name" /\ pc # "raw" /\ stream \in {<<1, 66>>, <<2, 65, 65>>})
          => ParseRaised("Name", "AssertionError")

\* records with an integer, a referenced and a string assertion returned
C13_Witness ==
    \/ Parsed("Magic") /\ value.f.tag = IntV(1) /\ value.f.body = IntV(3)
    \/ Parsed("Pair") /\ value.f.a = IntV(2) /\ value.f.b = IntV(2)
    \/ Parsed("Name") /\ value.f.s = StrV(<<65>>)


\* |v - 1.0| < 1e-6 for a float32 v: v = 1 + man / 2^23 with man <= 8
\* (8 / 2^23 < 1e-6 < 9 / 2^23), or v = 1 - (2^23 - man) / 2^24 with
\* 2^23 - man <= 16 (16 / 2^24 < 1e-6 < 17 / 2^24)
WithinEpsOfOne(v) ==
    /\ v.sign = 0
    /\ \/ v.exp = 127 /\ v.man <= 8
       \/ v.exp = 126 /\ 8388608 - v.man <= 16

\* C14: a field asserted to a float literal c accepts the decoded value v
\* exactly when |v - c| < 1e-6 (class Approx, c = 1.0); a field asserted to
\* a string literal accepts exactly the equal string (class Name, "A"); a
\* field asserted to an integer literal accepts exactly the equal integer
\* (class Magic, 1).
C14_FloatByEpsilon ==
    /\ (cls = "Approx" /\ pc # "raw" /\ Len(stream) >= 4) =>
          (Parsed("Approx") <=> WithinEpsOfOne(float32_parse(stream, 0).v))
    /\ (cls = "Name" /\ pc # "raw" /\ stream \in NameStreams) =>
          (Parsed("Name") <=> string_parse(stream, 0).v = StrV(<<65>>))
    /\ (cls = "Magic" /\ pc # "raw") => (Parsed("Magic") <=> ByteAt(0) = 1)


\* the signed value of the stream's first byte (an int8 field)
FirstInt8 == IF ByteAt(0) >= 128 THEN ByteAt(0) - 256 ELSE ByteAt(0)

\* the offset parse stops at after reading n bytes of the stream
EndAfter(n) == Min(n, Len(stream))

\* C15: when the condition of a field's `if` clause is false during
\* decode, no byte is consumed for the field and it is bound to its
\* default: the constant (Opt.opt, default 7), the value of the referenced
\* earlier field (Dflt.v, default alt), or None when there is no default
\* (Opt.tag).  The fields after it are read from where the stream stood.
C15_FalseConditionReadsNothing ==
    /\ Parsed("Opt") =>
          /\ value.f.num = IntV(FirstInt8)
          /\ FirstInt8 < 0 =>
                /\ value.f.opt = IntV(7)
                /\ value.f.tag = None
                /\ value.f.tail = IntV(ByteAt(1))
                /\ value.location_end = EndAfter(2)
          /\ FirstInt8 = 0 =>
                /\ value.f.opt = IntV(7)
                /\ value.f.tag = IntV(ByteAt(1))
                /\ value.f.tail = IntV(ByteAt(2))
                /\ value.location_end = EndAfter(3)
          /\ FirstInt8 > 0 =>
                /\ value.f.opt = IntV(from_bytes(Read(stream, 1, 2), TRUE))
                /\ value.f.tag = None
                /\ value.f.tail = IntV(ByteAt(3))
                /\ value.location_end = EndAfter(4)
    /\ Parsed("Dflt") =>
          /\ value.f.alt = IntV(ByteAt(1))
          /\ FirstInt8 <= 0 =>
                /\ value.f.v = value.f.alt
                /\ value.location_end = EndAfter(2)
          /\ FirstInt8 > 0 =>
                /\ value.f.v = IntV(ByteAt(2))
                /\ value.location_end = EndAfter(3)
    /\ (cls \in {"Opt", "Dflt"} /\ pc # "raw") => Parsed(cls)

\* a false condition with bytes left in the stream: the default of a
\* referenced field, or a constant default followed by a None
C15_Witness ==
    \/ /\ Parsed("Dflt") /\ FirstInt8 = 0 /\ Len(stream) > 2
       /\ value.f.v = IntV(3) /\ value.location_end = 2
    \/ /\ Parsed("Opt") /\ FirstInt8 = -1 /\ Len(stream) > 2
       /\ value.f.opt = IntV(7) /\ value.f.tag = None
       /\ value.location_end = 2


----------------------------------------------------------------------------
(* Claims about injected fields, checked under SpecCodec.                  *)

\* save has been called on the parsed record and returned
Resaved(c) == cls = c /\ pc \in {"resaved", "sized", "size_failed"}

----------------------------------------------------------------------------
(* generator.py: generate_parser.  The schema is kept as the sequence of   *)
(* its class definitions (the dict that parse_class_def builds for each),  *)
(* a file as the sequence of its lines and a line as the sequence of the   *)
(* pieces it was written from.  The methods written for a class are        *)
(* modelled by ParseRecord, SaveRecord and get_size above; of the text of  *)
(* a class the output keeps the class line, the comments and the fields.   *)

\* the codecs and the loader take no part in a run of the generator
GeneratorOnly ==
    /\ cls = "generator"
    /\ stream = <<>>
    /\ pos = 0
    /\ value = None
    /\ out = <<>>
    /\ result = None
    /\ file = <<>>
    /\ data = None
    /\ data_begin_pos = -1
    /\ header_array = <<>>
    /\ data_end_pos = -1
    /\ data_sign = <<>>
    /\ expected_sign = <<>>
    /\ blobs = None

\* most classes after the template classes of a schema
MaxClasses == 2

\* var_meta of a field without array, clauses or inline comment
Attr(name, type, template_type_list) ==
    [name |-> name, type |-> type, template_type_list |-> template_type_list]

\* class_attrs['tmp_comment_%d'] = {'type': 'comment', 'comment': ...}
CommentAttr(key, comment) ==
    [name |-> key, type |-> "comment", comment |-> comment]

ClassDef(class_name, generic_type_def, attrs) ==
    [class_name |-> class_name,
     template_data |-> [is_template_cls |-> generic_type_def # <<>>,
                        generic_type_def |-> generic_type_def],
     class_attrs |-> attrs]

\* ''.join(l)
RECURSIVE Join(_)
Join(l) == IF l = <<>> THEN "" ELSE Head(l) \o Join(Tail(l))

\* '%s_%s' % (class_name, ''.join(template_type_list))
template_class_name(class_name, template_type_list) ==
    class_name \o "_" \o Join(template_type_list)

\* the (type, template_type_list) entries that the fields of a class ask for
GenList(attrs) ==
    SelectSeq([i \in DOMAIN attrs |->
                  IF attrs[i].type = "comment" THEN <<"", <<>>>>
                  ELSE <<attrs[i].type, attrs[i].template_type_list>>],
              LAMBDA e : e[2] # <<>>)

\* template_type_mappings[t] where t is a template type, t itself otherwise
Mapped(t, generic_type_def, template_type_list) ==
    IF \E k \in DOMAIN generic_type_def : generic_type_def[k] = t
    THEN template_type_list[
            CHOOSE k \in DOMAIN generic_type_def :
                /\ generic_type_def[k] = t
                /\ \A n \in DOMAIN generic_type_def :
                        generic_type_def[n] = t => n <= k]
    ELSE t

\* the fields of a class as write_py_class writes them: the comments, and
\* name and type of a field, a template type under its generated name
RECURSIVE FieldLines(_)
FieldLines(attrs) ==
    IF attrs = <<>> THEN <<>>
    ELSE (IF Head(attrs).type = "comment"
          THEN [n \in DOMAIN Head(attrs).comment |->
                    <<"    ">> \o Head(attrs).comment[n]]
          ELSE <<<<"    ", Head(attrs).name, ": ",
                   Local([t \in {IF Head(attrs).template_type_list # <<>>
                                 THEN template_class_name(Head(attrs).type,
                                        Head(attrs).template_type_list)
                                 ELSE Head(attrs).type} |->
                        IF t \in BUILTIN_TYPES THEN t
                        ELSE "'" \o t \o "'"])>>>>)
         \o FieldLines(Tail(attrs))

RECURSIVE write_py_class(_, _)
RECURSIVE write_template_py_class(_, _, _)
RECURSIVE WriteTemplates(_, _)

\* for type_name, template_type_list in template_class_gen_list:
\*     write_template_py_class(_global_class_defs[type_name], ...)
WriteTemplates(st, gen_list) ==
    IF st.err # "none" \/ gen_list = <<>> THEN st
    ELSE WriteTemplates(
            write_template_py_class(st, Head(gen_list)[1], Head(gen_list)[2]),
            Tail(gen_list))

\* st holds the lines written, the names of the template classes generated,
\* the class definitions known and the exception raised
write_py_class(st, class_def) ==
    IF class_def.template_data.is_template_cls THEN st
    ELSE WriteTemplates(
            [st EXCEPT !.out =
                @ \o <<<<"class ", class_def.class_name, "(SaveObject):">>>>
                  \o FieldLines(class_def.class_attrs)
                  \o <<<<"        return size">>>>],
            GenList(class_def.class_attrs))

write_template_py_class(st, type_name, template_type_list) ==
    IF type_name \notin DOMAIN st.defs
    THEN [st EXCEPT !.err = "KeyError"]
    ELSE Local([class_def \in {st.defs[type_name]} |->
        Local([name \in {template_class_name(class_def.class_name,
                                             template_type_list)} |->
            IF \/ ~class_def.template_data.is_template_cls
               \/ Len(class_def.template_data.generic_type_def)
                    # Len(template_type_list)
            THEN [st EXCEPT !.err = "AssertionError"]
            ELSE IF name \in st.generated THEN st
            ELSE IF \E i \in DOMAIN class_def.class_attrs :
                        class_def.class_attrs[i].type = "comment"
            THEN [st EXCEPT !.err = "KeyError"]
            ELSE Local([attrs \in {
                    [i \in DOMAIN class_def.class_attrs |->
                        [class_def.class_attrs[i] EXCEPT
                            !.type = Mapped(@,
                                class_def.template_data.generic_type_def,
                                template_type_list),
                            !.template_type_list =
                                [n \in DOMAIN @ |-> Mapped(@[n],
                                    class_def.template_data.generic_type_def,
                                    template_type_list)]]]} |->
                WriteTemplates(
                    write_py_class(
                        [st EXCEPT !.generated = @ \cup {name}],
                        ClassDef(name, <<>>, attrs)),
                    GenList(attrs))])])])

\* hashlib's SHA-256 is no code of the repository: the digest of a schema
\* is a text that differs whenever the schema differs
compute_sha256(schema) == ToString(schema)

IsSpace(piece) == piece \in {"", " ", "  ", "\t"}

\* line.strip()
RECURSIVE StripLine(_)
StripLine(line) ==
    IF line = <<>> THEN line
    ELSE IF IsSpace(Head(line)) THEN StripLine(Tail(line))
    ELSE IF IsSpace(line[Len(line)])
    THEN StripLine(SubSeq(line, 1, Len(line) - 1))
    ELSE line

RECURSIVE last_line_of_file(_)
last_line_of_file(lines) ==
    IF lines = <<>> THEN <<>>
    ELSE IF StripLine(lines[Len(lines)]) # <<>>
    THEN StripLine(lines[Len(lines)])
    ELSE last_line_of_file(SubSeq(lines, 1, Len(lines) - 1))

\* the template classes that every schema of the model begins with:
\*   Pair<K, V> { K key; V value }   List<T> { T item }
\*   Box<T> { List<T> items }        Plain { int32 n }
TemplateClasses ==
    <<ClassDef("Pair", <<"K", "V">>,
               <<Attr("key", "K", <<>>), Attr("value", "V", <<>>)>>),
      ClassDef("List", <<"T">>, <<Attr("item", "T", <<>>)>>),
      ClassDef("Box", <<"T">>, <<Attr("items", "List", <<"T">>)>>),
      ClassDef("Plain", <<>>, <<Attr("n", "int32", <<>>)>>)>>

\* a template type with its arguments, as a field of a schema names it
TemplateTypes ==
    ({"Pair"} \X {<<a, b>> : a \in {"A", "AB"}, b \in {"BC", "C"}})
        \cup ({"List", "Box"} \X {<<"A">>, <<"AB">>})
        \cup {<<"List", <<"A", "B">>>>, <<"Plain", <<"A">>>>,
              <<"Missing", <<"A">>>>}

\* Holder1 { t m }, Holder2 { t m } ..
Holders(n) ==
    {[i \in 1..n |->
         ClassDef("Holder" \o ToString(i), <<>>,
                  <<Attr("m", d[i][1], d[i][2])>>)] :
        d \in [1..n -> TemplateTypes]}

\* the text of the schema ends inside a class: where a declaration or the
\* closing brace would begin, or after the type of a declaration
EndOfFile == [name |-> "", type |-> "<EOF>", template_type_list |-> <<>>]
EndInDeclaration ==
    [name |-> "", type |-> "int32<EOF>", template_type_list |-> <<>>]

\* the schema whose text ends after the declarations of its last class
Truncated(schema, end) ==
    [schema EXCEPT ![Len(schema)].class_attrs = @ \o <<end>>]

\* what the text of a class ends with
Ending(class_def) ==
    IF class_def.class_attrs # <<>>
            /\ class_def.class_attrs[Len(class_def.class_attrs)].name = ""
    THEN class_def.class_attrs[Len(class_def.class_attrs)].type
    ELSE "}"

\* the class as parse_class_def has it when its text ends
AsRead(class_def) ==
    IF Ending(class_def) = "}" THEN class_def
    ELSE [class_def EXCEPT
            !.class_attrs = SubSeq(@, 1, Len(class_def.class_attrs) - 1)]

\* the holders after the template classes; one holder before them; one
\* holder after them, with the end of the text inside it
Schemas ==
    UNION {{TemplateClasses \o h : h \in Holders(n)} : n \in 1..MaxClasses}
        \cup {h \o TemplateClasses : h \in Holders(1)}
        \cup {Truncated(TemplateClasses \o h, end) :
                    h \in Holders(1), end \in {EndOfFile, EndInDeclaration}}

Header == <<"# Auto-generated file, do not edit">>

Trailer(sha256) == <<"# sha256: ", sha256>>

\* the output file before the call: missing, or with these lines
OldOutputs(schema) ==
    {[exists |-> FALSE, lines |-> <<>>]} \cup
    {[exists |-> TRUE, lines |-> l] :
        l \in {<<>>,
               <<Header>>,
               <<Header, Trailer(compute_sha256(schema))>>,
               <<Header, Trailer(compute_sha256(schema)), <<>>, <<" ">>>>,
               <<Header,
                 <<" ">> \o Trailer(compute_sha256(schema)) \o <<"  ">>>>,
               <<Header, Trailer(compute_sha256(schema)), Header>>,
               <<Header, Trailer(compute_sha256(schema)) \o <<"0">>>>,
               <<Header, Trailer(compute_sha256(<<>>))>>}}

GeneratorInit ==
    /\ pc = "start"
    /\ def_file \in Schemas
    /\ out_py_file \in OldOutputs(def_file)
    /\ f_def = <<>>
    /\ def_file_sha256 = ""
    /\ class_attrs = <<>>
    /\ var_meta = None
    /\ global_class_defs = <<>>
    /\ generated_template_classes = {}
    /\ template_class_gen_list = <<>>
    /\ files = <<>>
    /\ err = "none"
    /\ msg = <<>>
    /\ GeneratorOnly
    /\ NoDigest

\* no reuse of an existing output
Reusable_never(output, sha256) == FALSE

\* a reuse of every output that ends with a digest, whatever the digest
Reusable_any_digest(output, sha256) ==
    /\ output.exists
    /\ last_line_of_file(output.lines) # <<>>
    /\ Head(last_line_of_file(output.lines)) = "# sha256: "

\* the output is reused if its last line has the digest of the schema
Reusable(output, sha256) ==
    /\ output.exists
    /\ Local([last_line \in {last_line_of_file(output.lines)} |->
            /\ last_line # <<>>
            /\ Head(last_line) = "# sha256: "
            /\ Join(Tail(last_line)) = sha256])

\* generate_parser up to the call of parse_def_document
GenerateOpen ==
    /\ pc = "start"
    /\ \E sha256 \in {compute_sha256(def_file)} :
          /\ def_file_sha256' = sha256
          /\ IF Reusable(out_py_file, sha256)
             THEN /\ pc' = "returned"
                  /\ UNCHANGED <<out_py_file, f_def>>
             ELSE /\ pc' = "classes"
                  /\ out_py_file' = [exists |-> TRUE, lines |-> <<Header>>]
                  /\ f_def' = def_file
    /\ UNCHANGED <<def_file, class_attrs, var_meta, global_class_defs,
                   generated_template_classes, template_class_gen_list,
                   err, msg, result>>
    /\ UNCHANGED files
    /\ UNCHANGED codec_vars
    /\ UNCHANGED load_vars
    /\ UNCHANGED md5_vars

\* parse_def_document: parse_class_def reads the next class, enters it into
\* _global_class_defs and, having read its closing brace, writes it
WriteClass ==
    /\ pc = "classes"
    /\ f_def # <<>>
    /\ \E class_def \in {AsRead(Head(f_def))} :
          /\ global_class_defs' =
                (class_def.class_name :> class_def) @@ global_class_defs
          /\ IF Ending(Head(f_def)) = "}"
             THEN /\ \E st \in {write_py_class(
                                    [out |-> out_py_file.lines,
                                     generated |-> generated_template_classes,
                                     defs |-> global_class_defs',
                                     err |-> "none"], class_def)} :
                        /\ out_py_file' =
                                [out_py_file EXCEPT !.lines = st.out]
                        /\ generated_template_classes' = st.generated
                        /\ err' = st.err
                        /\ pc' = IF st.err = "none" THEN "classes"
                                 ELSE "failed"
                  /\ template_class_gen_list' =
                        IF class_def.template_data.is_template_cls
                        THEN template_class_gen_list
                        ELSE template_class_gen_list
                                \o GenList(class_def.class_attrs)
             ELSE \* parse_class_body does not return: an assert on the
                  \* declaration fails, or EOFError, which generate_parser
                  \* catches
                  /\ err' = IF Ending(Head(f_def)) = EndOfFile.type THEN "none"
                            ELSE "AssertionError"
                  /\ pc' = IF Ending(Head(f_def)) = EndOfFile.type THEN "classes"
                           ELSE "failed"
                  /\ UNCHANGED <<out_py_file, generated_template_classes,
                                 template_class_gen_list>>
    /\ f_def' = Tail(f_def)
    /\ UNCHANGED <<def_file, def_file_sha256, class_attrs, var_meta, msg,
                   result>>
    /\ UNCHANGED files
    /\ UNCHANGED codec_vars
    /\ UNCHANGED load_vars
    /\ UNCHANGED md5_vars

\* EOFError at the end of the text of the schema: generate_parser writes
\* the time and the digest, and returns
WriteTrailer ==
    /\ pc = "classes"
    /\ f_def = <<>>
    /\ out_py_file' =
          [out_py_file EXCEPT !.lines =
              @ \o <<<<"# generated at: ", "%Y-%m-%d %H:%M:%S">>,
                     Trailer(def_file_sha256)>>]
    /\ pc' = "returned"
    /\ UNCHANGED <<def_file, f_def, def_file_sha256, class_attrs, var_meta,
                   global_class_defs, generated_template_classes,
                   template_class_gen_list, err, msg, result>>
    /\ UNCHANGED files
    /\ UNCHANGED codec_vars
    /\ UNCHANGED load_vars
    /\ UNCHANGED md5_vars

GeneratorNext == GenerateOpen \/ WriteClass \/ WriteTrailer

SpecGenerator == GeneratorInit /\ [][GeneratorNext]_vars

(* Claims about generate_parser.                                           *)

\* the type that the field of the i-th class after the template classes
\* has in the output
Referred(i) ==
    out_py_file.lines[
        1 + CHOOSE k \in DOMAIN out_py_file.lines :
                out_py_file.lines[k] =
                    <<"class ", "Holder" \o ToString(i), "(SaveObject):">>][4]

\* C17: two instantiations of a template get the same generated class if
\* and only if they name the same template with the same tuple of type
\* arguments.
C17_MemoizedByNameAndArguments ==
    pc = "returned" =>
        \A i, j \in DOMAIN template_class_gen_list :
            (Referred(i) = Referred(j))
                <=> (template_class_gen_list[i] = template_class_gen_list[j])

----------------------------------------------------------------------------
(* generator.py: the body of a class.  The body is kept as the sequence of *)
(* its lines up to the closing brace: a field declaration (a type and a    *)
(* name), a comment with its text, or an empty line.                       *)

\* most lines of a class body
MaxBodyLines == 5

FieldLine(type, name) == [kind |-> "field", type |-> type, name |-> name]

CommentLine(text) == [kind |-> "comment", text |-> text]

BlankLine == [kind |-> "blank"]

\* d[key] = meta of a dict, which keeps the place of a key it already has
DictSet(d, meta) ==
    IF \E i \in DOMAIN d : d[i].name = meta.name
    THEN [i \in DOMAIN d |-> IF d[i].name = meta.name THEN meta ELSE d[i]]
    ELSE Append(d, meta)

\* parse_new_line with parse_comment: the empty lines and the comments up
\* to the next declaration; tmp is what has been written to out_py_file
RECURSIVE parse_new_line(_, _, _)
parse_new_line(lines, line_no, tmp) ==
    IF lines = <<>> \/ Head(lines).kind = "field"
    THEN [rest |-> lines, line_no |-> line_no, tmp |-> tmp]
    ELSE parse_new_line(Tail(lines), line_no + 1,
            IF Head(lines).kind = "blank" THEN tmp
            ELSE Append(tmp, <<"# (L", ToString(line_no), "): ",
                               Head(lines).text>>))

\* the loop of parse_class_body from a declaration on; the end of the line
\* of the declaration is the first empty line that parse_new_line reads
RECURSIVE parse_class_body(_, _, _)
parse_class_body(lines, attrs, line_no) ==
    IF lines = <<>> THEN attrs
    ELSE Local([r \in {parse_new_line(Tail(lines), line_no + 1, <<>>)} |->
            parse_class_body(r.rest,
                Local([a \in {DictSet(attrs,
                                Attr(Head(lines).name, Head(lines).type,
                                     <<>>))} |->
                    IF r.tmp # <<>>
                    THEN DictSet(a, CommentAttr("tmp_comment_0", r.tmp))
                    ELSE a]),
                r.line_no)])

\* the line of the schema at which the body of the first class begins
FirstBodyLine == 3

\* the i-th declaration of a body is  int32 a, int32 b, ..
FieldNames == <<"a", "b", "c", "d", "e", "f", "g">>

RECURSIVE Numbered(_, _)
Numbered(lines, n) ==
    IF lines = <<>> THEN <<>>
    ELSE IF Head(lines).kind = "field"
    THEN <<FieldLine("int32", FieldNames[n])>> \o Numbered(Tail(lines), n + 1)
    ELSE <<Head(lines)>> \o Numbered(Tail(lines), n)

\* the bodies that begin with a declaration
Bodies ==
    UNION {{Numbered(<<FieldLine("int32", "")>> \o b, 1) :
               b \in [1..n -> {FieldLine("int32", ""), CommentLine("x"),
                               CommentLine("y"), BlankLine}]} :
           n \in 0..(MaxBodyLines - 1)}

ClassBodyInit ==
    /\ pc = "body"
    /\ f_def \in Bodies
    /\ def_file = f_def
    /\ out_py_file = [exists |-> FALSE, lines |-> <<>>]
    /\ def_file_sha256 = ""
    /\ class_attrs = <<>>
    /\ var_meta = None
    /\ global_class_defs = <<>>
    /\ generated_template_classes = {}
    /\ template_class_gen_list = <<>>
    /\ files = <<>>
    /\ err = "none"
    /\ msg = <<>>
    /\ GeneratorOnly
    /\ NoDigest

\* parse_class_def: line_no = parse_class_body(def_file, class_attrs, ..)
ParseClassBody ==
    /\ pc = "body"
    /\ class_attrs' = parse_class_body(f_def, <<>>, FirstBodyLine)
    /\ f_def' = <<>>
    /\ pc' = "parsed"
    /\ UNCHANGED <<def_file, out_py_file, def_file_sha256, var_meta,
                   global_class_defs, generated_template_classes,
                   template_class_gen_list, err, msg, result>>
    /\ UNCHANGED files
    /\ UNCHANGED codec_vars
    /\ UNCHANGED load_vars
    /\ UNCHANGED md5_vars

\* write_py_class: the comments and the fields of the class are written
WriteBody ==
    /\ pc = "parsed"
    /\ out_py_file' = [exists |-> TRUE, lines |-> FieldLines(class_attrs)]
    /\ pc' = "written"
    /\ UNCHANGED <<def_file, f_def, def_file_sha256, class_attrs, var_meta,
                   global_class_defs, generated_template_classes,
                   template_class_gen_list, err, msg, result>>
    /\ UNCHANGED files
    /\ UNCHANGED codec_vars
    /\ UNCHANGED load_vars
    /\ UNCHANGED md5_vars

ClassBodyNext == ParseClassBody \/ WriteBody

SpecClassBody == ClassBodyInit /\ [][ClassBodyNext]_vars

(* Claims about the body of a class.                                       *)

\* the declarations and the comments of a body, in their order
Declared(lines) ==
    [i \in DOMAIN SelectSeq(lines, LAMBDA l : l.kind # "blank") |->
        Local([l \in {SelectSeq(lines, LAMBDA x : x.kind # "blank")[i]} |->
            IF l.kind = "field" THEN <<"field", l.name>>
            ELSE <<"comment", l.text>>])]

\* the fields and the comments of an output, in their order
Written(lines) ==
    [i \in DOMAIN lines |->
        IF lines[i][2] = "# (L" THEN <<"comment", lines[i][5]>>
        ELSE <<"field", lines[i][2]>>]

\* C18: every comment of a class body is in the output, at its place among
\* the fields.
C18_EveryCommentKept ==
    pc = "written" => Written(out_py_file.lines) = Declared(def_file)

----------------------------------------------------------------------------
(* generator.py: a field declaration.  The text of a line is the sequence  *)
(* of its characters up to the end of the line, which is followed by the  *)
(* closing brace of the class.  The texts of the model have no "<" and no  *)
(* "[" (a declaration has no template arguments and no array size), and    *)
(* no line ends with the word "if".                                        *)

\* most clauses after the name of a field
MaxClauses == 5

\* [A-Za-z_]
Letters ==
    {"A", "B", "C", "D", "E", "F", "G", "H", "I", "J", "K", "L", "M", "N",
    "O", "P", "Q", "R", "S", "T", "U", "V", "W", "X", "Y", "Z", "a", "b",
    "c", "d", "e", "f", "g", "h", "i", "j", "k", "l", "m", "n", "o", "p",
    "q", "r", "s", "t", "u", "v", "w", "x", "y", "z", "_"}

Digits == {"0", "1", "2", "3", "4", "5", "6", "7", "8", "9"}

\* [ \t], and \s within a line
White == {" ", "\t"}

Drop(line, n) == SubSeq(line, n + 1, Len(line))

StartsWith(line, prefix) ==
    Len(line) >= Len(prefix) /\ SubSeq(line, 1, Len(prefix)) = prefix

\* the number of characters of a set that a text begins with
RECURSIVE Run(_, _)
Run(line, set) ==
    IF line # <<>> /\ Head(line) \in set THEN 1 + Run(Tail(line), set) ELSE 0

\* the number of characters before the first one of a set
RECURSIVE Until(_, _)
Until(line, set) ==
    IF line # <<>> /\ Head(line) \notin set
    THEN 1 + Until(Tail(line), set) ELSE 0

\* TOKEN.match(line).end(), 0 if TOKEN does not match
TOKEN(line) ==
    IF line # <<>> /\ Head(line) \in Letters
    THEN 1 + Run(Tail(line), Letters \cup Digits) ELSE 0

\* SPACES.match(line).end()
SPACES(line) == Run(line, White)

\* str.strip()
RECURSIVE StripText(_)
StripText(t) ==
    IF t = <<>> THEN t
    ELSE IF Head(t) \in White THEN StripText(Tail(t))
    ELSE IF t[Len(t)] \in White THEN StripText(SubSeq(t, 1, Len(t) - 1))
    ELSE t

\* the loop of find_parenthesis: the index i, from 0, at which it returns,
\* -1 if it leaves the loop
RECURSIVE Closing(_, _, _)
Closing(s, i, level) ==
    IF i >= Len(s) THEN -1
    ELSE IF s[i + 1] = "(" THEN Closing(s, i + 1, level + 1)
    ELSE IF s[i + 1] = ")"
    THEN (IF level = 1 THEN i ELSE Closing(s, i + 1, level - 1))
    ELSE Closing(s, i + 1, level)

\* s[1:i]; without a closing parenthesis the loop meets the end of the
\* line and its assert fails
find_parenthesis(s) == SubSeq(s, 2, Closing(s, 0, 0))

\* what a handler of a clause did: the value it stored under its key, the
\* characters it went forward, and the exception it raised
Handled(v, n) == [v |-> v, n |-> n, err |-> "none"]

Unhandled(e) == [v |-> None, n |-> 0, err |-> e]

\* a str, a list of str, and a dict without keys
Text(s) == [k |-> "str", s |-> s]

TextList(l) == [k |-> "list", l |-> l]

EmptyDict == [k |-> "dict"]

parse_if_clause(line) ==
    IF StartsWith(line, <<"i", "f">>)
    THEN Local([e \in {2 + Run(Drop(line, 2), White)} |->
            IF e < Len(line) /\ Closing(Drop(line, e), 0, 0) = -1
            THEN Unhandled("AssertionError")
            ELSE Local([condition \in {find_parenthesis(Drop(line, e))} |->
                    Handled(Text(StripText(condition)),
                            e + Len(condition) + 2)])])
    ELSE Handled(None, 0)

\* keyword\s*\(\s*([^)]+)\s*\) matched at the start of a line: whether it
\* matches, start and end of its group and the end of the match
ClauseMatch(line, keyword) ==
    Local([a \in {Len(keyword) + Run(Drop(line, Len(keyword)), White)} |->
        Local([c \in {Until(Drop(line, a + 1), {")"})} |->
            [ok |-> /\ a < Len(line)
                    /\ line[a + 1] = "("
                    /\ c >= 1
                    /\ a + 1 + c < Len(line),
             start |-> a + 1 + Min(Run(Drop(line, a + 1), White), c - 1),
             end |-> a + 1 + c,
             stop |-> a + 2 + c]])])

\* int(group), int(group, 16)
RECURSIVE Number(_, _)
Number(digits, base) ==
    IF digits = <<>> THEN 0
    ELSE base * Number(SubSeq(digits, 1, Len(digits) - 1), base)
         + CHOOSE d \in 0..15 :
                digits[Len(digits)] \in {<<"0", "1", "2", "3", "4", "5", "6", "7", "8", "9", "a", "b", "c", "d", "e", "f">>[d + 1],
                                         <<"0", "1", "2", "3", "4", "5", "6", "7", "8", "9", "A", "B", "C", "D", "E", "F">>[d + 1]}

HexDigits == Digits \cup {"a", "b", "c", "d", "e", "f",
                          "A", "B", "C", "D", "E", "F"}

\* the numeric value of parse_value, the text after the sign
NumericValue(line, sign) ==
    IF StartsWith(line, <<"0", "x">>)
    THEN Local([s \in {Until(Drop(line, 2), HexDigits)} |->
            IF s = Len(line) - 2 THEN Unhandled("AssertionError")
            ELSE Local([e \in {s + Run(Drop(line, 2 + s), HexDigits)} |->
                Handled([type |-> "const",
                         value |-> sign * Number(SubSeq(line, 3 + s, 2 + e),
                                                 16)],
                        2 + e)])])
    ELSE Local([s \in {Until(line, Digits)} |->
            Local([e \in {s + Run(Drop(line, s), Digits)} |->
                IF ~StartsWith(Drop(line, e), <<".">>)
                THEN Handled([type |-> "const",
                              value |-> sign * Number(SubSeq(line, s + 1, e),
                                                      10)], e)
                ELSE Local([f \in {Until(Drop(line, e + 1), Digits)} |->
                    Handled([type |-> "const",
                             value |->
                                [float |-> sign,
                                 whole |-> SubSeq(line, s + 1, e),
                                 fraction |->
                                    SubSeq(line, e + 2 + f, e + 1 + f
                                        + Run(Drop(line, e + 1 + f),
                                              Digits))]],
                            IF f = Len(line) - e - 1 THEN e + 1
                            ELSE e + 1 + f
                                 + Run(Drop(line, e + 1 + f), Digits))])])])

parse_value(line) ==
    IF StartsWith(line, <<"\"">>)
    THEN (IF Until(Tail(line), {"\""}) = Len(line) - 1
          THEN Unhandled("AssertionError")
          ELSE Handled([type |-> "const",
                        value |-> SubSeq(line, 2,
                                         1 + Until(Tail(line), {"\""}))],
                       Until(Tail(line), {"\""}) + 2))
    ELSE IF Until(line, Digits) = Len(line) THEN Handled(EmptyDict, 0)
    ELSE IF StartsWith(line, <<"-">>)
    THEN Local([r \in {NumericValue(Tail(line), -1)} |->
            [r EXCEPT !.n = IF r.err = "none" THEN @ + 1 ELSE @]])
    ELSE NumericValue(line, 1)

parse_default_clause(line) ==
    IF StartsWith(line, <<"d", "e", "f", "a", "u", "l", "t">>)
    THEN Local([m \in {ClauseMatch(line, <<"d", "e", "f", "a", "u", "l", "t">>)} |->
            IF ~m.ok THEN Unhandled("AssertionError")
            ELSE IF TOKEN(StripText(SubSeq(line, m.start + 1, m.end))) > 0
            THEN Handled([type |-> "ref",
                          value |->
                            StripText(SubSeq(line, m.start + 1, m.end))],
                         m.stop)
            ELSE Local([r \in {parse_value(Drop(line, m.start))} |->
                    IF r.err # "none" THEN r
                    ELSE IF r.v = EmptyDict THEN Unhandled("KeyError")
                    ELSE Handled([type |-> "const", value |-> r.v.value],
                                 m.stop)])])
    ELSE Handled(None, 0)

parse_assertion(line) ==
    IF StartsWith(line, <<"=">>)
    THEN Local([e \in {1 + SPACES(Tail(line))} |->
            IF TOKEN(Drop(line, e)) > 0
            THEN Handled([type |-> "ref",
                          value |-> SubSeq(line, e + 1,
                                           e + TOKEN(Drop(line, e)))],
                         e + TOKEN(Drop(line, e)))
            ELSE Local([r \in {parse_value(Drop(line, e))} |->
                    [r EXCEPT !.n = IF r.err = "none" THEN @ + e ELSE @]])])
    ELSE Handled(None, 0)

\* [x.strip() for x in props_body.split(',')]
RECURSIVE SplitStrip(_)
SplitStrip(t) ==
    IF Until(t, {","}) = Len(t) THEN <<StripText(t)>>
    ELSE <<StripText(SubSeq(t, 1, Until(t, {","})))>>
            \o SplitStrip(Drop(t, Until(t, {","}) + 1))

parse_props_clause(line) ==
    IF StartsWith(line, <<"p", "r", "o", "p", "s">>)
    THEN Local([m \in {ClauseMatch(line, <<"p", "r", "o", "p", "s">>)} |->
            IF ~m.ok THEN Unhandled("AssertionError")
            ELSE Handled(TextList(SplitStrip(
                            StripText(SubSeq(line, m.start + 1, m.end)))),
                         m.stop)])
    ELSE Handled(None, 0)

\* the keys of extra_defs, in its order, and the handler of a key
extra_defs == <<"if_clause", "default", "assertion", "props">>

Handler(key, line) ==
    CASE key = "if_clause" -> parse_if_clause(line)
      [] key = "default" -> parse_default_clause(line)
      [] key = "assertion" -> parse_assertion(line)
      [] key = "props" -> parse_props_clause(line)

\* every handler is called, also that of a clause already read
Pending_always(meta, key) == TRUE

\* var_meta.get(key, None) is None
Pending(meta, key) == meta[key] = None

\* for key, handling_func in extra_defs.items(), from the i-th key on
RECURSIVE TryHandlers(_, _, _)
TryHandlers(line, meta, i) ==
    IF i > Len(extra_defs)
    THEN [meta |-> meta, n |-> 0, matched |-> FALSE, err |-> "none"]
    ELSE IF ~Pending(meta, extra_defs[i]) THEN TryHandlers(line, meta, i + 1)
    ELSE Local([r \in {Handler(extra_defs[i], line)} |->
            IF r.err # "none"
            THEN [meta |-> meta, n |-> 0, matched |-> FALSE, err |-> r.err]
            ELSE IF r.v # None
            THEN [meta |-> [meta EXCEPT ![extra_defs[i]] = r.v], n |-> r.n,
                  matched |-> TRUE, err |-> "none"]
            ELSE TryHandlers(line, [meta EXCEPT ![extra_defs[i]] = None],
                             i + 1)])

\* the while loop of parse_variable_def on the text after the name
RECURSIVE ClauseLoop(_, _)
ClauseLoop(line, meta) ==
    Local([text \in {Drop(line, SPACES(line))} |->
        IF text = <<>> THEN [meta |-> meta, rest |-> text, err |-> "none"]
        ELSE Local([r \in {TryHandlers(text, meta, 1)} |->
                IF r.err = "none" /\ r.matched
                THEN ClauseLoop(Drop(text, r.n), r.meta)
                ELSE [meta |-> r.meta, rest |-> text, err |-> r.err]])])

parse_variable_def(line, injected) ==
    Local([t \in {TOKEN(line)} |->
        Local([s \in {SPACES(Drop(line, t))} |->
            Local([n \in {TOKEN(Drop(line, t + s))} |->
                IF t = 0 \/ s = 0 \/ n = 0
                THEN [meta |-> None, rest |-> line, err |-> "AssertionError"]
                ELSE ClauseLoop(Drop(line, t + s + n),
                        [injected |-> injected,
                         template_type_list |-> <<>>,
                         type |-> SubSeq(line, 1, t),
                         name |-> SubSeq(line, t + s + 1, t + s + n),
                         is_array |-> FALSE,
                         if_clause |-> None,
                         default |-> None,
                         assertion |-> None,
                         props |-> None,
                         comment |-> None])])])])

\* parse_attribute_def: the declaration with its inline comment; rest is
\* what it leaves of the line
parse_attribute_def(line) ==
    Local([r \in {IF StartsWith(line, <<"i", "n", "j", "e", "c", "t", "e", "d">>)
                  THEN parse_variable_def(
                            Drop(line, 8 + SPACES(Drop(line, 8))), TRUE)
                  ELSE parse_variable_def(line, FALSE)} |->
        IF r.err # "none" THEN r
        ELSE Local([c \in {Drop(r.rest, SPACES(r.rest))} |->
                IF StartsWith(c, <<"/", "/">>)
                THEN [r EXCEPT
                        !.meta.comment =
                            Text(IF \E i \in 3..Len(c) : c[i] \in White
                                 THEN Drop(c, 3) ELSE Drop(c, 2)),
                        !.rest = <<>>]
                ELSE [r EXCEPT !.rest = c]])])

\* the clauses of the model, as they are written and as var_meta holds them
ClauseTexts ==
    <<[if_clause |-> <<"i", "f", " ", "(", "n", " ", ">", " ", "0", ")">>,
       props |-> <<"p", "r", "o", "p", "s", " ", "(", "n", ",", " ", "k", ")">>,
       default |-> <<"d", "e", "f", "a", "u", "l", "t", " ", "(", "7", ")">>,
       assertion |-> <<"=", " ", "7">>],
      [if_clause |-> <<"i", "f", "(", "n", ")">>,
       props |-> <<"p", "r", "o", "p", "s", "(", "n", ")">>,
       default |-> <<"d", "e", "f", "a", "u", "l", "t", " ", "(", "k", ")">>,
       assertion |-> <<"=", " ", "k">>],
      [if_clause |-> <<"i", "f", " ", "(", "(", "n", ")", " ", ">", " ", "1", ")">>,
       props |-> <<"p", "r", "o", "p", "s", " ", "(", " ", "n", " ", ")">>,
       default |-> <<"d", "e", "f", "a", "u", "l", "t", " ", "(", "-", "0", "x", "1", "F", ")">>,
       assertion |-> <<"=", " ", "\"", "s", "\"">>]>>

\* a declaration is  int32 v  and clauses of one of the three ways of
\* writing them, a blank between two of its parts
Declarations ==
    UNION {{<<<<"i", "n", "t", "3", "2", " ", "v">>>> \o [i \in 1..n |-> ClauseTexts[w][keys[i]]] :
               keys \in [1..n -> {"if_clause", "props", "default",
                                   "assertion"}],
               w \in 1..3} :
           n \in 0..MaxClauses}

RECURSIVE Spaced(_)
Spaced(parts) ==
    IF Len(parts) = 1 THEN parts[1]
    ELSE parts[1] \o <<" ">> \o Spaced(Tail(parts))

VariableDefInit ==
    /\ pc = "body"
    /\ def_file \in Declarations
    /\ f_def = Spaced(def_file)
    /\ out_py_file = [exists |-> FALSE, lines |-> <<>>]
    /\ def_file_sha256 = ""
    /\ class_attrs = <<>>
    /\ var_meta = None
    /\ global_class_defs = <<>>
    /\ generated_template_classes = {}
    /\ template_class_gen_list = <<>>
    /\ files = <<>>
    /\ err = "none"
    /\ msg = <<>>
    /\ GeneratorOnly
    /\ NoDigest

\* parse_class_body: what is left of the line is read as a declaration
ParseAttributeDef ==
    /\ pc = "body"
    /\ f_def # <<>>
    /\ \E r \in {parse_attribute_def(f_def)} :
          /\ err' = r.err
          /\ IF r.err = "none"
             THEN /\ pc' = "body"
                  /\ var_meta' = r.meta
                  /\ class_attrs' = DictSet(class_attrs, r.meta)
                  /\ f_def' = r.rest
             ELSE /\ pc' = "failed"
                  /\ UNCHANGED <<var_meta, class_attrs, f_def>>
    /\ UNCHANGED <<def_file, out_py_file, def_file_sha256,
                   global_class_defs, generated_template_classes,
                   template_class_gen_list, msg, result>>
    /\ UNCHANGED files
    /\ UNCHANGED codec_vars
    /\ UNCHANGED load_vars
    /\ UNCHANGED md5_vars

\* parse_class_body: the line is read to its end, the closing brace follows
CloseBody ==
    /\ pc = "body"
    /\ f_def = <<>>
    /\ pc' = "parsed"
    /\ UNCHANGED <<err, msg, result>>
    /\ UNCHANGED gen_vars
    /\ UNCHANGED codec_vars
    /\ UNCHANGED load_vars
    /\ UNCHANGED md5_vars

VariableDefNext == ParseAttributeDef \/ CloseBody

SpecVariableDef == VariableDefInit /\ [][VariableDefNext]_vars

(* Claims about a field declaration.                                       *)

\* what var_meta is to hold for the clauses of the model
ClauseValues ==
    <<[if_clause |-> Text(<<"n", " ", ">", " ", "0">>),
       props |-> TextList(<<<<"n">>, <<"k">>>>),
       default |-> [type |-> "const", value |-> 7],
       assertion |-> [type |-> "const", value |-> 7]],
      [if_clause |-> Text(<<"n">>),
       props |-> TextList(<<<<"n">>>>),
       default |-> [type |-> "ref", value |-> <<"k">>],
       assertion |-> [type |-> "ref", value |-> <<"k">>]],
      [if_clause |-> Text(<<"(", "n", ")", " ", ">", " ", "1">>),
       props |-> TextList(<<<<"n">>>>),
       default |-> [type |-> "const", value |-> -31],
       assertion |-> [type |-> "const", value |-> <<"s">>]]>>

\* the way of writing and the key of the i-th clause of the declaration
ClauseOf(i) ==
    CHOOSE c \in (1..3) \X {"if_clause", "props", "default", "assertion"} :
        ClauseTexts[c[1]][c[2]] = def_file[i + 1]

Repeated ==
    \E i, j \in 1..(Len(def_file) - 1) :
        i < j /\ ClauseOf(i)[2] = ClauseOf(j)[2]

\* C19: a declaration with each clause at most once is read whatever the
\* order of its clauses, and its entry holds each of them; a declaration
\* with a clause twice is refused with an AssertionError.
C19_AnyOrderOnceEach ==
    /\ pc \in {"parsed", "failed"} => (pc = "failed" <=> Repeated)
    /\ pc = "failed" => err = "AssertionError"
    /\ pc = "parsed" =>
          /\ Len(class_attrs) = 1
          /\ class_attrs[1].name = <<"v">>
          /\ class_attrs[1].type = <<"i", "n", "t", "3", "2">>
          /\ \A key \in {"if_clause", "props", "default", "assertion"} :
                IF \E i \in 1..(Len(def_file) - 1) : ClauseOf(i)[2] = key
                THEN \E i \in 1..(Len(def_file) - 1) :
                        /\ ClauseOf(i)[2] = key
                        /\ class_attrs[1][key] = ClauseValues[ClauseOf(i)[1]][key]
                ELSE class_attrs[1][key] = None

\* the four clauses in the order  = 7, props, default, if  were read
C19_Witness ==
    /\ pc = "parsed"
    /\ Len(def_file) = 5
    /\ def_file[2] = ClauseTexts[1].assertion
    /\ def_file[3] = ClauseTexts[1].props
    /\ def_file[4] = ClauseTexts[1].default
    /\ def_file[5] = ClauseTexts[1].if_clause
    /\ var_meta.if_clause = Text(<<"n", " ", ">", " ", "0">>)
    /\ var_meta.assertion = [type |-> "const", value |-> 7]
    /\ var_meta.default = [type |-> "const", value |-> 7]
    /\ var_meta.props = TextList(<<<<"n">>, <<"k">>>>)


\* C20: when generate_parser has returned, the last non-empty line of the
\* output file (as last_line_of_file reads it, white space at its ends
\* aside) is "# sha256: " and the digest of the schema file, whether the
\* file was written by this call or left as it was.
C20_LastLineIsDigest ==
    pc = "returned" =>
        /\ out_py_file.exists
        /\ last_line_of_file(out_py_file.lines)
                = <<"# sha256: ", compute_sha256(def_file)>>

\* a call that found an output with the digest of another schema and wrote
\* two classes and a template class anew
C20_Witness ==
    /\ pc = "returned"
    /\ Len(template_class_gen_list) = 2
    /\ generated_template_classes # {}
    /\ def_file_sha256 = compute_sha256(def_file)
    /\ out_py_file.lines[Len(out_py_file.lines)] = Trailer(def_file_sha256)
    /\ Len(out_py_file.lines) > 8

----------------------------------------------------------------------------
(* buggy_md5.py: an MD5 object on its own.  MD5() sets hash_pieces, every  *)
(* update(arg) pads arg as a whole message and folds it into hash_pieces,  *)
(* hexdigest() reads hash_pieces.                                          *)

\* most update calls on one object
MaxUpdates == 3

\* the arguments of update: b'', b'\x00', b'\xff' and 56 bytes 'a', the
\* shortest argument that is padded to two chunks
Args == {<<>>, <<0>>, <<255>>, [i \in 1..56 |-> 97]}

\* the codecs, the loader and the generator take no part
DigestOnly ==
    /\ cls = "MD5"
    /\ stream = <<>>
    /\ pos = 0
    /\ value = None
    /\ out = <<>>
    /\ err = "none"
    /\ file = <<>>
    /\ data = None
    /\ data_begin_pos = -1
    /\ header_array = <<>>
    /\ data_end_pos = -1
    /\ data_sign = <<>>
    /\ expected_sign = <<>>
    /\ blobs = None
    /\ msg = <<>>
    /\ NoGenerator

\* md5_obj = MD5()
DigestInit ==
    /\ pc = "constructed"
    /\ md5_obj = MD5
    /\ md5_args = <<>>
    /\ result = None
    /\ DigestOnly

\* md5_obj.update(a), which returns nothing
Update ==
    /\ Len(md5_args) < MaxUpdates
    /\ \E a \in Args :
        /\ md5_obj' = update(md5_obj, a)
        /\ md5_args' = Append(md5_args, a)
    /\ pc' = "updated"
    /\ result' = None
    /\ UNCHANGED <<err, msg>>
    /\ UNCHANGED codec_vars
    /\ UNCHANGED <<file, data, data_begin_pos, header_array, data_end_pos,
                   data_sign, expected_sign, blobs>>
    /\ UNCHANGED gen_vars

\* md5_obj.hexdigest()
HexDigest ==
    /\ pc # "digested"
    /\ result' = hexdigest(md5_obj)
    /\ pc' = "digested"
    /\ UNCHANGED <<err, msg>>
    /\ UNCHANGED md5_vars
    /\ UNCHANGED codec_vars
    /\ UNCHANGED <<file, data, data_begin_pos, header_array, data_end_pos,
                   data_sign, expected_sign, blobs>>
    /\ UNCHANGED gen_vars

DigestNext == Update \/ HexDigest

SpecDigest == DigestInit /\ [][DigestNext]_vars

\* the entries that the claim lists, by the index of the code
Altered ==
    1 :> <<59607, 46934>> @@
    6 :> <<43056, 17955>> @@
    12 :> <<27551, 4386>> @@
    15 :> <<14772, 2081>> @@
    19 :> <<51638, 51114>> @@
    21 :> <<580, 13395>> @@
    24 :> <<8689, 52710>> @@
    27 :> <<18266, 5357>>

\* C21: the table of round constants is the sine table at every index but
\* 1, 6, 12, 15, 19, 21, 24 and 27, where it holds the eight listed values,
\* each of them different from the sine table's; an MD5 object that has not
\* been updated holds 0x67452301, 0xefdcab89, 0x98badcfe, 0x10325746.
C21_RoundConstants ==
    /\ \A i \in 0..63 :
          K[i + 1] = IF i \in DOMAIN Altered THEN Altered[i]
                     ELSE SineTable[i + 1]
    /\ \A i \in DOMAIN Altered : K[i + 1] # SineTable[i + 1]
    /\ DOMAIN Altered = {1, 6, 12, 15, 19, 21, 24, 27}
    /\ md5_args = <<>> =>
          md5_obj = <<<<26437, 8961>>, <<61404, 43913>>,
                          <<39098, 56574>>, <<4146, 22342>>>>

\* an object that has gone through all 64 constants once: the digest of
\* the one byte 0 is '26e9fd97b55ea8fa9ef3c2db12f529e3'
C21_Witness ==
    /\ md5_args = <<<<0>>>>
    /\ pc = "digested"
    /\ result =
        <<50, 54, 101, 57, 102, 100, 57, 55, 98, 53, 53, 101, 97, 56, 102, 97,
          57, 101, 102, 51, 99, 50, 100, 98, 49, 50, 102, 53, 50, 57, 101, 51>>

\* C22 as stated: the digest of the empty byte string is
\* '8c0a78a4d2d7047f7be09b0fce22f67b'
C22_EmptyDigestAsClaimed ==
    (md5_args = <<<<>>>> /\ pc = "digested") =>
        result =
            <<56, 99, 48, 97, 55, 56, 97, 52, 100, 50, 100, 55, 48, 52, 55, 102,
              55, 98, 101, 48, 57, 98, 48, 102, 99, 101, 50, 50, 102, 54, 55, 98>>

\* C22: a fresh object, update(b''), hexdigest(): the digest of the empty
\* byte string is the 32 lower-case hexadecimal digits
\* '84d1ce3bd68f49ab26eb0f96416617cf'
C22_EmptyDigest ==
    (md5_args = <<<<>>>> /\ pc = "digested") =>
        result =
            <<56, 52, 100, 49, 99, 101, 51, 98, 100, 54, 56, 102, 52, 57, 97, 98,
              50, 54, 101, 98, 48, 102, 57, 54, 52, 49, 54, 54, 49, 55, 99, 102>>

C22_Witness ==
    /\ md5_args = <<<<>>>>
    /\ pc = "digested"
    /\ Len(result) = 32
    /\ \A i \in 1..32 : result[i] \in (48..57) \cup (97..102)

----------------------------------------------------------------------------
(* int24 of common.py, on the runs of SpecCodec.                           *)

\* the three bytes of the low 24 bits of n, least significant first
Low24(n) ==
    Local([m \in {(n + 33554432) % 16777216} |->
        <<m % 256, (m \div 256) % 256, m \div 65536>>])

\* the three bytes s, least significant first, read as a two's complement
SignExtended(s) ==
    Local([u \in {s[1] + (256 * s[2]) + (65536 * s[3])} |->
        IF u >= 8388608 THEN u - 16777216 ELSE u])

\* C23: int24.parse of three bytes returns their sign-extended value, which
\* lies in -2^23 .. 2^23 - 1, and int24(n).save writes the low 24 bits of n
\* as three bytes and never fails, whatever 32-bit value n is.
C23_Int24LowBits ==
    /\ (cls = "int24" /\ pc = "parsed" /\ Len(stream) >= 3) =>
          /\ value = IntV(SignExtended(stream))
          /\ value.v \in -8388608..8388607
    /\ (cls = "int24" /\ pc \in {"saved", "save_failed"}) =>
          /\ err = "none"
          /\ out = Low24(value.v)

----------------------------------------------------------------------------
(* Claims about generate_parser on the runs of SpecGenerator.              *)

\* the class line of the output for a class of this name
ClassLine(name) == <<"class ", name, "(SaveObject):">>

HasClass(name) ==
    \E k \in DOMAIN out_py_file.lines : out_py_file.lines[k] = ClassLine(name)

\* the call has read the schema (a call that reuses the output has not)
SchemaRead == global_class_defs # <<>>

\* C24: if the output exists and its last non-empty line is '# sha256: '
\* with the digest of the schema, the call leaves the output as it is and
\* does not read the schema; otherwise (no output, no such line, another
\* digest) it starts the output anew and reads the schema.
C24_ReuseOrRewrite ==
    [][pc = "start" =>
        IF /\ out_py_file.exists
           /\ last_line_of_file(out_py_file.lines)
                    = <<"# sha256: ", compute_sha256(def_file)>>
        THEN /\ pc' = "returned"
             /\ out_py_file' = out_py_file
             /\ f_def' = <<>>
             /\ global_class_defs' = global_class_defs
        ELSE /\ pc' = "classes"
             /\ out_py_file' = [exists |-> TRUE, lines |-> <<Header>>]
             /\ f_def' = def_file]_vars

\* an output with nothing but the header and the digest of the schema has
\* been left as it was, and no class of the schema has been read
C24_Witness ==
    /\ pc = "returned"
    /\ out_py_file.lines = <<Header, Trailer(compute_sha256(def_file))>>
    /\ ~SchemaRead
    /\ def_file_sha256 = compute_sha256(def_file)

\* C25: a schema whose text ends inside a class makes the call fail, and
\* the digest line is not written; an output that the call has ended with
\* the digest line has a class for every class of the schema that is no
\* template.
C25_TruncatedSchemaFails ==
    (pc \in {"returned", "failed"} /\ SchemaRead) =>
        /\ Ending(def_file[Len(def_file)]) # "}" =>
              /\ pc = "failed"
              /\ err # "none"
              /\ last_line_of_file(out_py_file.lines)
                    # Trailer(compute_sha256(def_file))
        /\ last_line_of_file(out_py_file.lines)
                = Trailer(compute_sha256(def_file)) =>
              \A i \in DOMAIN def_file :
                  ~def_file[i].template_data.is_template_cls
                      => HasClass(def_file[i].class_name)

\* the template type e = (type, template_type_list) names a template class
\* of the schema, with as many arguments as the template has types
Resolvable(e) ==
    \E i \in DOMAIN def_file :
        /\ def_file[i].class_name = e[1]
        /\ def_file[i].template_data.is_template_cls
        /\ Len(def_file[i].template_data.generic_type_def) = Len(e[2])

\* the template types that the fields of the classes of the schema name
Instantiations ==
    UNION {{GenList(AsRead(def_file[i]).class_attrs)[n] :
                n \in DOMAIN GenList(AsRead(def_file[i]).class_attrs)} :
            i \in {k \in DOMAIN def_file :
                        ~def_file[k].template_data.is_template_cls}}

\* C28: a field may name a template instantiation whether the template is
\* defined before or after the class of the field: the call succeeds and
\* writes the class of the instantiation.
C28_TemplateBeforeOrAfter ==
    (/\ pc \in {"returned", "failed"}
     /\ SchemaRead
     /\ Ending(def_file[Len(def_file)]) = "}"
     /\ \A e \in Instantiations : Resolvable(e)) =>
        /\ pc = "returned"
        /\ err = "none"
        /\ \A e \in Instantiations : HasClass(template_class_name(e[1], e[2]))

----------------------------------------------------------------------------
(* __init__.py: _bootstrap calls generate_parser for every schema file of  *)
(* the directory, in one process.                                          *)

\* most schema files in the directory
MaxFiles == 2

\* the schema files: the template classes and one holder
FormatFiles == {TemplateClasses \o h : h \in Holders(1)}

\* for file in os.listdir(__name__)
BootstrapInit ==
    /\ pc = "listed"
    /\ files \in UNION {[1..n -> FormatFiles] : n \in 1..MaxFiles}
    /\ def_file = <<>>
    /\ out_py_file = [exists |-> FALSE, lines |-> <<>>]
    /\ f_def = <<>>
    /\ def_file_sha256 = ""
    /\ class_attrs = <<>>
    /\ var_meta = None
    /\ global_class_defs = <<>>
    /\ generated_template_classes = {}
    /\ template_class_gen_list = <<>>
    /\ err = "none"
    /\ msg = <<>>
    /\ GeneratorOnly
    /\ NoDigest

\* generate_parser(file, basename + '_generated.py') for the next file, the
\* output of which does not exist yet
NextFile ==
    /\ pc \in {"listed", "returned"}
    /\ files # <<>>
    /\ def_file' = Head(files)
    /\ files' = Tail(files)
    /\ out_py_file' = [exists |-> FALSE, lines |-> <<>>]
    /\ f_def' = <<>>
    /\ def_file_sha256' = ""
    /\ template_class_gen_list' = <<>>
    /\ pc' = "start"
    /\ UNCHANGED <<class_attrs, var_meta, global_class_defs,
                   generated_template_classes, err, msg, result>>
    /\ UNCHANGED codec_vars
    /\ UNCHANGED load_vars
    /\ UNCHANGED md5_vars

BootstrapNext == NextFile \/ GenerateOpen \/ WriteClass \/ WriteTrailer

SpecBootstrap == BootstrapInit /\ [][BootstrapNext]_vars

\* C26: the calls of one process do not depend on each other: the output
\* of each call has a class for every template instantiation that a field
\* of its schema names.
C26_CallsIndependent ==
    pc = "returned" =>
        \A n \in DOMAIN template_class_gen_list :
            HasClass(template_class_name(template_class_gen_list[n][1],
                                         template_class_gen_list[n][2]))

\* ------------------------------------------------------------------------
\* load_blueprint_data: the two quotes

\* every assert on the shape of the text has passed: its length, its
\* prefix, the opening quote, the header count, the closing quote and the
\* length of what follows it
StructureAccepted ==
    pc \in {"located", "signed", "decoded", "decompressed", "parsed",
            "returned"}

\* C27: in a text that passed every structural check of load_blueprint_data
\* the closing quote stands strictly after the opening quote, so that the
\* payload is the text between two distinct quotes
C27_DistinctQuotes ==
    StructureAccepted => data_end_pos > data_begin_pos

\* ------------------------------------------------------------------------
\* the locations of the records of a generated parse

\* the records that the parse of record o produced through nested parse
\* calls, in declaration order (the elements of a list in the order of the
\* list): an injected field and a field left at its default parse nothing
RECURSIVE Nested(_, _)
Nested(o, j) ==
    IF j > Len(Schema[o.cls]) THEN <<>>
    ELSE LET m == Schema[o.cls][j]
             v == o.f[m.name]
         IN  (CASE m.injected -> <<>>
                [] m.if_clause # NoExpr /\ ~Cond(m.if_clause, o.f) -> <<>>
                [] v.k = "obj" -> <<v>>
                [] v.k = "list" -> SelectSeq(v.l, LAMBDA x : x.k = "obj")
                [] OTHER -> <<>>) \o Nested(o, j + 1)

\* start <= end, every nested record within the record, each nested record
\* ending before the next one starts, and so on for the nested records
RECURSIVE WellLocated(_)
WellLocated(o) ==
    /\ o.location_start <= o.location_end
    /\ LET inner == Nested(o, 1)
       IN  \A i \in 1..Len(inner) :
              /\ o.location_start <= inner[i].location_start
              /\ inner[i].location_end <= o.location_end
              /\ i < Len(inner) =>
                    inner[i].location_end <= inner[i + 1].location_start
              /\ WellLocated(inner[i])

\* C29: a record that a generated parse returned has the stream position on
\* entry (0 here) as location_start and the position on exit as
\* location_end, location_start <= location_end; its nested records, read
\* in declaration order, lie within its range and do not overlap.  A record
\* constructed without location arguments has -1 for both.
C29_Locations ==
    /\ (cls \in RecordClasses /\ Parsed(cls)) =>
          /\ value.location_start = 0
          /\ value.location_end = pos
          /\ WellLocated(value)
    /\ (cls \in RecordClasses /\ pc = "parsed" /\ result # None) =>
          /\ result.f = value.f
          /\ result.location_start = -1
          /\ result.location_end = -1

\* an Outer of two items and a last record, each of one byte, read from a
\* stream of four bytes, and a record constructed from its fields
C29_Witness ==
    /\ cls = "Outer" /\ pc = "parsed" /\ Len(stream) = 4
    /\ Len(value.f.items.l) = 2
    /\ <<value.f.items.l[1].location_start, value.f.items.l[1].location_end,
         value.f.items.l[2].location_start, value.f.items.l[2].location_end,
         value.f.last.location_start, value.f.last.location_end>>
          = <<1, 2, 2, 3, 3, 4>>
    /\ value.location_end = 4
    /\ result # None /\ result.location_end = -1
============================================================================
